---- MODULE Spec2Model ----
(***************************************************************************)
(* A model of rar2john (src/src/rar2john.c): the format dispatcher, the    *)
(* RAR3 header loop with its candidate selector, the RAR5 block loop with  *)
(* its extra-area processor, and the resources and output of one run over  *)
(* several archives.  Archives are byte strings; the parser actions read   *)
(* them at the stream position exactly as the C code does.                 *)
(***************************************************************************)
EXTENDS Integers, Sequences, FiniteSets, TLC

\* ------------------------------------------------------------------ bounds
\* Archives named on one command line.
MaxArchives == 2
\* Headers after the archive header in a generated RAR3 archive.
MaxEntries == 2
\* Blocks after the main header in a generated RAR5 archive.
MaxBlocks == 2
\* Candidates offered in one run of the selector specification.
MaxOffers == 3
\* Commands in an encoded name given to DecodeFileName alone.
MaxDecCmds == 3
\* Bytes in a stream given to read_vuint alone.
MaxVIntBytes == 11

\* ------------------------------------------------------- program constants
CHUNK_SIZE == 4096
RAR3_MAGIC_SIZE == 7
RAR5_MAGIC_SIZE == 8
RAR_OLD_MAGIC_SIZE == 4
\* params.h (not in src/): the line buffer of john.
LINE_BUFFER_SIZE == 1024
\* Max file (path) name length, in characters.
PATH_BUF_SIZE == 256
\* sizeof(file_name): 4 * PATH_BUF_SIZE.
FILE_NAME_BUF == 1024
\* bestsize.pack's initial value; the model's integers are 32 bits wide,
\* narrower than size_t, so the sentinel is the largest value they hold.
SIZE_MAX == 2147483647

RAR_OLD_MAGIC == <<82, 69, 126, 94>>
RAR3_MAGIC == <<82, 97, 114, 33, 26, 7, 0>>
RAR5_MAGIC == <<82, 97, 114, 33, 26, 7, 1, 0>>
MZ_MAGIC == <<77, 90>>

itoa16 == <<"0", "1", "2", "3", "4", "5", "6", "7",
            "8", "9", "a", "b", "c", "d", "e", "f">>

\* ------------------------------------------------------------ byte helpers
Min(a, b) == IF a < b THEN a ELSE b
Max(a, b) == IF a > b THEN a ELSE b

\* x & m # 0 for a single-bit mask m.
HasFlag(x, m) == (x \div m) % 2 = 1

\* Bytes left in stream f at position pos (a position past the end is legal).
Avail(f, pos) == IF pos >= Len(f) THEN 0 ELSE Len(f) - pos

\* The n bytes of f at C offset pos.
Bytes(f, pos, n) == SubSeq(f, pos + 1, pos + n)

\* b[lo] | b[lo+1] << 8, b indexed from 0 as in C.
U16(b, lo) == b[lo + 1] + 256 * b[lo + 2]

\* The four shift-and-add lines that build a little-endian 32-bit value.
U32(b, lo) == b[lo + 1] + 256 * (b[lo + 2] + 256 * (b[lo + 3] + 256 * b[lo + 4]))

\* printf("%c%c", itoa16[b >> 4], itoa16[b & 0x0f]) over a buffer.
RECURSIVE Hex(_)
Hex(b) == IF b = <<>> THEN <<>>
          ELSE <<itoa16[(Head(b) \div 16) + 1], itoa16[(Head(b) % 16) + 1]>> \o Hex(Tail(b))

\* strlen of a buffer that holds a NUL.
StrLen(b) ==
    LET nuls == {i \in DOMAIN b : b[i] = 0}
    IN (CHOOSE i \in nuls : \A j \in nuls : i <= j) - 1

\* The string in a buffer: the bytes before the first NUL, all of them
\* when there is none.
CStr(b) == IF \A i \in DOMAIN b : b[i] # 0 THEN b ELSE SubSeq(b, 1, StrLen(b))

\* The number of characters "%PRIu64" prints.
RECURSIVE Digits(_)
Digits(n) == IF n < 10 THEN 1 ELSE 1 + Digits(n \div 10)

\* Does byte string m occur in window w at C offset i.
MatchAt(w, m, i) == i + Len(m) <= Len(w) /\ SubSeq(w, i + 1, i + Len(m)) = m

\* memmem: the offset of the first occurrence of m in w, or -1.
MemMem(w, m) ==
    LET hits == {i \in 0..Len(w) : MatchAt(w, m, i)}
    IN IF hits = {} THEN -1 ELSE CHOOSE i \in hits : \A j \in hits : i <= j

\* --------------------------------------------------------- archive inputs
\* The archives given to the program are built from small menus of headers;
\* the parser below sees only their bytes.
LE16(n) == <<n % 256, (n \div 256) % 256>>
LE32(n) == <<n % 256, (n \div 256) % 256, (n \div 65536) % 256, (n \div 16777216) % 256>>
Fill(n, seed) == [i \in 1..n |-> (seed + i - 1) % 256]

RECURSIVE Concat(_)
Concat(ss) == IF ss = <<>> THEN <<>> ELSE Head(ss) \o Concat(Tail(ss))

SeqsUpTo(S, n) == UNION {[1..k -> S] : k \in 0..n}

\* RAR3 header flag bits.
F_ENC == 4
F_SOLID == 16
F_DIRMASK == 224
F_LARGE == 256
F_UNICODE == 512
F_SALT == 1024
F_EXTTIME == 4096
F_LONG == 32768
AF_HP == 128

\* One RAR3 header as written by an archiver: tag, flags, declared sizes,
\* method, name bytes, salt seed, extended-time bytes and the data that
\* follows the header.
R3Entry(typ, flags, pack, unp, method, name, seed, ext, data) ==
    [typ |-> typ, flags |-> flags, pack |-> pack, unp |-> unp, method |-> method,
     name |-> name, seed |-> seed, ext |-> ext, data |-> data]

Rar3Menu == <<
    \* 1: encrypted, salted, compressed, 2 packed bytes, 9 unpacked
    R3Entry(116, F_LONG + F_SALT + F_ENC, 2, 9, 51, <<97>>, 16, <<>>, <<201, 202>>),
    \* 2: encrypted, stored, 3 packed bytes, 3 unpacked
    R3Entry(116, F_LONG + F_ENC, 3, 3, 48, <<98>>, 0, <<>>, <<211, 212, 213>>),
    \* 3: encrypted, salted, compressed, extended time, 2 packed bytes, 3 unpacked
    R3Entry(116, F_LONG + F_EXTTIME + F_SALT + F_ENC, 2, 3, 51, <<99, 100>>, 32, <<1, 2>>, <<221, 222>>),
    \* 4: solid encrypted entry
    R3Entry(116, F_LONG + F_SALT + F_SOLID + F_ENC, 1, 20, 51, <<101>>, 48, <<>>, <<231>>),
    \* 5: directory
    R3Entry(116, F_LONG + F_DIRMASK + F_ENC, 0, 0, 48, <<102>>, 0, <<>>, <<>>),
    \* 6: file that is not encrypted
    R3Entry(116, F_LONG, 2, 2, 48, <<103>>, 0, <<>>, <<241, 242>>),
    \* 7: a header of another type
    R3Entry(121, F_LONG, 0, 0, 48, <<104>>, 0, <<>>, <<>>),
    \* 8: encrypted, stored, with an encoded wide-character name: the OEM
    \* name "i", a NUL, the high byte 0, a flags byte of four commands 0 and
    \* the low byte of one character
    R3Entry(116, F_LONG + F_UNICODE + F_ENC, 4, 4, 48, <<105, 0, 0, 0, 106>>, 0, <<>>,
            <<251, 252, 253, 254>>),
    \* 9: encrypted file whose header has flag 0x8000 clear
    R3Entry(116, F_SALT + F_ENC, 2, 9, 51, <<107>>, 64, <<>>, <<181, 182>>),
    \* 10: comment header (0x7a) with the flag bits of an encrypted entry
    R3Entry(122, F_LONG + F_SALT + F_ENC, 1, 8, 48, <<67, 77, 84>>, 80, <<>>, <<171>>),
    \* 11: file that is not encrypted, with a name of LINE_BUFFER_SIZE - 1
    \* characters
    R3Entry(116, F_LONG, 1, 1, 48, [i \in 1..(LINE_BUFFER_SIZE - 1) |-> 110], 0, <<>>, <<191>>),
    \* 12: encrypted, salted, with the high words of the sizes (flag 0x0100),
    \* both 0
    R3Entry(116, F_LONG + F_LARGE + F_SALT + F_ENC, 2, 9, 51, <<111>>, 96, <<>>, <<161, 162>>)
>>

R3HeadSize(e) ==
    32 + (IF HasFlag(e.flags, F_LARGE) THEN 8 ELSE 0) + Len(e.name)
       + (IF HasFlag(e.flags, F_SALT) THEN 8 ELSE 0) + Len(e.ext)

R3EntryBytes(e) ==
    <<0, 0, e.typ>> \o LE16(e.flags) \o LE16(R3HeadSize(e))
      \o LE32(e.pack) \o LE32(e.unp) \o <<2>> \o Fill(4, e.seed + 64)
      \o <<0, 0, 0, 0>> \o <<29, e.method>> \o LE16(Len(e.name)) \o <<32, 0, 0, 0>>
      \o (IF HasFlag(e.flags, F_LARGE) THEN <<0, 0, 0, 0, 0, 0, 0, 0>> ELSE <<>>)
      \o e.name
      \o (IF HasFlag(e.flags, F_SALT) THEN Fill(8, e.seed) ELSE <<>>)
      \o e.ext \o e.data

\* The 13-byte archive header, with acmt bytes of comment declared after it.
R3ArchiveHdr(hp, acmt) ==
    <<0, 0, 115>> \o LE16(IF hp THEN AF_HP ELSE 0) \o LE16(13 + acmt)
      \o <<0, 0, 0, 0, 0, 0>> \o Fill(acmt, 7)

\* The executable stub of an SFX archive.
SfxStub == MZ_MAGIC \o Fill(8, 144)

\* An archive description: the format, an SFX stub or none, header
\* encryption, archive comment length, the menu items in order, for a RAR3
\* archive with encrypted headers the number of bytes after the archive
\* header, and the number of bytes missing at the end of the file.
Desc(fmt, pre, hp, acmt, items, body, cut) ==
    [fmt |-> fmt, pre |-> pre, hp |-> hp, acmt |-> acmt, items |-> items, body |-> body,
     cut |-> cut]

Truncated(b, cut) == SubSeq(b, 1, Len(b) - cut)

Rar3Bytes(d) ==
    Truncated((IF d.pre = "mz" THEN SfxStub ELSE <<>>) \o RAR3_MAGIC
                \o R3ArchiveHdr(d.hp, d.acmt)
                \o (IF d.hp THEN Fill(d.body, 160)
                    ELSE Concat([i \in 1..Len(d.items) |-> R3EntryBytes(Rar3Menu[d.items[i]])])),
              d.cut)

\* Bytes after the archive header of the generated archives with encrypted
\* headers: the 24-byte tail alone, and the tail after 16 or 32 more bytes.
HpBodies == {24, 40, 56}

Rar3Descs ==
    {Desc("rar3", "none", FALSE, 0, s, 0, 0) : s \in SeqsUpTo(1..Len(Rar3Menu), MaxEntries)}
      \cup {Desc("rar3", "mz", FALSE, 0, s, 0, 0) : s \in SeqsUpTo(1..2, 1)}
      \cup {Desc("rar3", "none", FALSE, 3, s, 0, 0) : s \in SeqsUpTo(1..2, 1)}
      \cup {Desc("rar3", "none", FALSE, 0, <<1>>, 0, c) : c \in {1, 2, 12}}
      \cup {Desc("rar3", p, TRUE, 0, <<>>, b, 0) : p \in {"none", "mz"}, b \in HpBodies}

\* Files that are no archive: missing, empty, shorter than the marker,
\* pre-1.50, other content, an executable without an archive, a bare marker.
OtherDescs ==
    {Desc(k, "none", FALSE, 0, <<>>, 0, 0) :
       k \in {"missing", "empty", "short", "old", "junk", "marker"}}
      \cup {Desc("junk", "mz", FALSE, 0, <<>>, 0, 0)}

OtherBytes(d) ==
    CASE d.fmt = "short" -> <<72, 69, 76, 76, 79, 10>>
      [] d.fmt = "old" -> RAR_OLD_MAGIC \o <<1, 2, 3, 4>>
      [] d.fmt = "junk" /\ d.pre = "mz" -> SfxStub \o Fill(12, 1)
      [] d.fmt = "junk" -> Fill(12, 1)
      [] d.fmt = "marker" -> RAR3_MAGIC
      [] OTHER -> <<>>

\* ------------------------------------------------------- filename decoding
\* Name[i] or EncName[i] of the zero-filled file_name buffer.
At(buf, i) == IF i < Len(buf) THEN buf[i + 1] ELSE 0

\* The loop once EncPos is past the bytes that were read into the
\* zero-filled buffer and no command bits other than 0 are pending: every
\* turn is a command 0 that stores a zero, with a flags byte read before
\* every fourth.  The number of turns taken from (encPos, decPos) with
\* flagBits bits pending.
ZeroTurns(encPos, decPos, flagBits, encLimit, maxDec) ==
    LET q == flagBits \div 2
        reads(i) == IF i < q THEN 0 ELSE ((i - q) \div 4) + 1
        encTop(i) == encPos + i + (IF i = 0 THEN 0 ELSE reads(i - 1))
    IN Cardinality({i \in 0..(maxDec - 2 - decPos) : encTop(i) < encLimit})

\* The room the for loops of a run-length command leave to the run.
RunRoom_NoGuard(maxDec, decPos) == SIZE_MAX

\* The guard DecPos < MaxDecSize of the for loops of a run-length command,
\* lines 163-165 and 174-176: the characters a run may still store.
RunRoom(maxDec, decPos) == Max(maxDec - decPos, 0)

\* DecodeFileName's loop: one command per call.  name is the file_name
\* buffer, enc the offset of EncName in it; w is NameW[0..DecPos-1].
RECURSIVE DecodeLoop(_, _, _, _, _, _, _, _)
DecodeLoop(name, enc, encSize, maxDec, flags, flagBits, encPos, w) ==
    LET decPos == Len(w)
        high == At(name, enc)
        needFlags == flagBits = 0
        fl == IF needFlags THEN At(name, enc + encPos) ELSE flags
        ep == IF needFlags THEN encPos + 1 ELSE encPos
        fb == IF needFlags THEN 8 ELSE flagBits
        cmd == fl \div 64
        b0 == At(name, enc + ep)
        b1 == At(name, enc + ep + 1)
        runLen == IF b0 >= 128 THEN (b0 % 128) + 2 ELSE b0 + 2
        n == Min(runLen, RunRoom(maxDec, decPos))
        run == IF b0 >= 128
               THEN [i \in 1..n |-> ((At(name, decPos + i - 1) + b1) % 256) + 256 * high]
               ELSE [i \in 1..n |-> At(name, decPos + i - 1)]
        nfl == (fl * 4) % 256
        \* EncSize - 1 in size_t: an empty region gives the largest value.
        encLimit == IF encSize = 0 THEN SIZE_MAX ELSE encSize - 1
    IN IF ~(encPos < encLimit /\ decPos < maxDec - 1) THEN w
       ELSE IF enc + encPos >= Len(name) /\ (flagBits = 0 \/ flags = 0)
       THEN w \o [i \in 1..ZeroTurns(encPos, decPos, flagBits, encLimit, maxDec) |-> 0]
       ELSE CASE cmd = 0 -> DecodeLoop(name, enc, encSize, maxDec, nfl, fb - 2, ep + 1, Append(w, b0))
              [] cmd = 1 -> DecodeLoop(name, enc, encSize, maxDec, nfl, fb - 2, ep + 1,
                                       Append(w, b0 + 256 * high))
              [] cmd = 2 -> DecodeLoop(name, enc, encSize, maxDec, nfl, fb - 2, ep + 2,
                                       Append(w, b0 + 256 * b1))
              [] OTHER -> DecodeLoop(name, enc, encSize, maxDec, nfl, fb - 2,
                                     IF b0 >= 128 THEN ep + 2 ELSE ep + 1, w \o run)

\* DecodeFileName's loop again, lines 122-189, keeping only what it reads
\* of EncName: does it read EncName[i] for an i outside 0 .. EncSize - 1.
\* The bytes read before that lie in the region, so in the buffer.
RECURSIVE DecodeOverFrom(_, _, _, _, _, _, _, _)
DecodeOverFrom(name, enc, encSize, maxDec, flags, flagBits, encPos, decPos) ==
    LET needFlags == flagBits = 0
        fl == IF needFlags THEN At(name, enc + encPos) ELSE flags
        ep == IF needFlags THEN encPos + 1 ELSE encPos
        fb == IF needFlags THEN 8 ELSE flagBits
        cmd == fl \div 64
        b0 == At(name, enc + ep)
        two == cmd = 2 \/ (cmd = 3 /\ b0 >= 128)
        runLen == IF b0 >= 128 THEN (b0 % 128) + 2 ELSE b0 + 2
        stored == IF cmd = 3 THEN Min(runLen, RunRoom(maxDec, decPos)) ELSE 1
        encLimit == IF encSize = 0 THEN SIZE_MAX ELSE encSize - 1
    IN IF ~(encPos < encLimit /\ decPos < maxDec - 1) THEN FALSE
       ELSE IF needFlags /\ encPos >= encSize THEN TRUE
       ELSE IF ep >= encSize THEN TRUE
       ELSE IF two /\ ep + 1 >= encSize THEN TRUE
       ELSE DecodeOverFrom(name, enc, encSize, maxDec, (fl * 4) % 256, fb - 2,
                           IF two THEN ep + 2 ELSE ep + 1, decPos + stored)

\* Line 120 reads EncName[0] before any test; then the loop.
DecodeOver(name, enc, encSize) ==
    encSize = 0 \/ DecodeOverFrom(name, enc, encSize, PATH_BUF_SIZE, 0, 0, 1, 0)

\* file_name after lines 469-477 when raw was read into it: zero-filled
\* behind raw, with a NUL in its last byte.
FileNameBuf(raw) ==
    [i \in 1..FILE_NAME_BUF |-> IF i = FILE_NAME_BUF \/ i > Len(raw) THEN 0 ELSE raw[i]]

\* NameW up to its terminating NUL, for a buffer whose OEM part has strlen
\* len: EncName = file_name + len + 1, EncSize = sizeof(file_name) - len - 1,
\* MaxDecSize = PATH_BUF_SIZE UTF-16 units.
DecodeWrites(name, len) ==
    DecodeLoop(name, len + 1, FILE_NAME_BUF - len - 1, PATH_BUF_SIZE, 0, 0, 1, <<>>)

\* Line 190: the index at which the terminating NUL is stored.
NulIndex(w, maxDec) == IF Len(w) < maxDec THEN Len(w) ELSE maxDec - 1

DecodeFileName(name, len) ==
    CStr(SubSeq(DecodeWrites(name, len), 1, NulIndex(DecodeWrites(name, len), PATH_BUF_SIZE)))

\* utf16_to_utf8_r (unicode.c, not in src/): UTF-8 of the UTF-16 units, at
\* most PATH_BUF_SIZE - 1 bytes.
RECURSIVE Utf8(_)
Utf8(w) ==
    IF w = <<>> THEN <<>>
    ELSE LET c == Head(w)
         IN (IF c < 128 THEN <<c>>
             ELSE IF c < 2048 THEN <<192 + (c \div 64), 128 + (c % 64)>>
             ELSE <<224 + (c \div 4096), 128 + ((c \div 64) % 64), 128 + (c % 64)>>)
            \o Utf8(Tail(w))

\* The name printed and appended to gecos: file_name after lines 477-504.
FileName(flags, raw) ==
    LET oem == CStr(SubSeq(raw, 1, Min(Len(raw), FILE_NAME_BUF - 1)))
        w == DecodeFileName(raw, Len(oem))
    IN IF HasFlag(flags, F_UNICODE) /\ w # <<>>
       THEN SubSeq(Utf8(w), 1, Min(Len(Utf8(w)), 255))
       ELSE oem

\* ------------------------------------------------------------------ state
VARIABLES
    pc,          \* where the program is
    narch,       \* archives taken from argv so far
    verbose,     \* the -v switch
    sizeof_size_t, \* sizeof(size_t) of the build that runs
    arch,        \* description of the current archive (what was generated)
    file,        \* bytes of the current archive, <<>> between archives
    fpos,        \* stream position of fp
    type,        \* process_file: 0 = -hp, 1 = -p
    bestsize,    \* process_file: sizes and method of the best candidate
    best,        \* process_file: <<>> (NULL) or <<the buffered record>>
    best_len,    \* process_file: best_len
    gecos,       \* process_file: the string in the gecos buffer
    gecos_len,   \* process_file: gecos_len
    live,        \* resources of the current archive not yet released
    leaks,       \* resources earlier archives returned without releasing
    out,         \* stdout while the current archive is processed
    errlog,      \* stderr while the current archive is processed
    fpos5,       \* process_file5: stream position of its fp
    found,       \* process_file5: found
    ret5,        \* process_file5: the call site to return to
    Encrypted, UsePswCheck, rar5_interations, rar5_salt, PswCheck,
    offers,      \* selector specification: candidates offered so far
    hist,        \* selector specification: <<>> or <<the last decision>>
    arg,         \* function specifications: the input of the function
    res          \* function specifications: <<>> or <<the result>>

r3vars == <<fpos, type, bestsize, best, best_len, gecos, gecos_len>>
r5vars == <<fpos5, found, ret5>>
globals == <<Encrypted, UsePswCheck, rar5_interations, rar5_salt, PswCheck>>
runvars == <<narch, verbose, sizeof_size_t, arch, file>>
selvars == <<offers, hist>>
funvars == <<arg, res>>
vars == <<pc, runvars, r3vars, live, leaks, out, errlog, r5vars, globals, selvars, funvars>>

\* base_aname and archive_name of every archive of the run.
BaseName == "a.rar"
BaseNameLen == 5

NoBestSize == [pack |-> SIZE_MAX, unp |-> SIZE_MAX, method |-> 0]
NoArch == [fmt |-> "none", pre |-> "none", hp |-> FALSE, acmt |-> 0, items |-> <<>>,
           body |-> 0, cut |-> 0]
Zero(n) == [i \in 1..n |-> 0]

\* ------------------------------------------------------ candidate selector
\* The unpacked size from which a candidate of this method is taken to be
\* safe against false positives.
Thresh(method) == IF method > 48 THEN 4 ELSE 1

\* The condition without its first conjunct: the initial bestsize is taken
\* for a candidate.
BetterAlready_NoSentinel(b, pack, unp, method) ==
    \/ \/ b.pack < pack /\ b.unp >= Thresh(b.method)
       \/ b.unp > unp /\ unp < Thresh(method)
    \/ /\ b.pack = pack
       /\ \/ b.unp > unp /\ unp < 8
          \/ b.unp <= unp /\ b.unp >= 8

\* The condition with < for <= in the last line: of two tied candidates
\* with the same unpacked size >= 8 the later one is taken.
BetterAlready_TieStrict(b, pack, unp, method) ==
    /\ b.pack < SIZE_MAX
    /\ \/ \/ b.pack < pack /\ b.unp >= Thresh(b.method)
          \/ b.unp > unp /\ unp < Thresh(method)
       \/ /\ b.pack = pack
          /\ \/ b.unp > unp /\ unp < 8
             \/ b.unp < unp /\ b.unp >= 8

\* The condition without the test of the incumbent's unpacked size: a
\* larger candidate never replaces it.
BetterAlready_NoBestThreshold(b, pack, unp, method) ==
    /\ b.pack < SIZE_MAX
    /\ \/ \/ b.pack < pack
          \/ b.unp > unp /\ unp < Thresh(method)
       \/ /\ b.pack = pack
          /\ \/ b.unp > unp /\ unp < 8
             \/ b.unp <= unp /\ b.unp >= 8

\* The condition without the test of the candidate's unpacked size: the
\* smaller packed size always wins.
BetterAlready_NoOwnThreshold(b, pack, unp, method) ==
    /\ b.pack < SIZE_MAX
    /\ \/ b.pack < pack /\ b.unp >= Thresh(b.method)
       \/ /\ b.pack = pack
          /\ \/ b.unp > unp /\ unp < 8
             \/ b.unp <= unp /\ b.unp >= 8

\* The condition of lines 574-581: "We got a better candidate already".
BetterAlready(b, pack, unp, method) ==
    /\ b.pack < SIZE_MAX
    /\ \/ \/ b.pack < pack /\ b.unp >= Thresh(b.method)
          \/ b.unp > unp /\ unp < Thresh(method)
       \/ /\ b.pack = pack
          /\ \/ b.unp > unp /\ unp < 8
             \/ b.unp <= unp /\ b.unp >= 8

\* sizeof(size_t) of the builds: 32-bit and 64-bit.
SizeTWidths == {4, 8}

\* ex <<= 32 for the high word of a 64-bit size.
Shl32(hi) == IF hi = 0 THEN 0 ELSE hi * 65536 * 65536

\* ----------------------------------------------------------- SFX scanning
\* The scan with windows that do not overlap.
RECURSIVE SfxScan_NoOverlap(_, _, _)
SfxScan_NoOverlap(f, pos, magic) ==
    LET count == Min(CHUNK_SIZE, Avail(f, pos))
        at == MemMem(Bytes(f, pos, count), magic)
    IN IF count < Len(magic) THEN -1
       ELSE IF at >= 0 THEN pos + at + Len(magic)
       ELSE IF Avail(f, pos) < CHUNK_SIZE THEN -1
       ELSE SfxScan_NoOverlap(f, pos + count, magic)

\* The loops of lines 240-254 and 918-932: read a window of CHUNK_SIZE bytes
\* at pos, look for the magic, step back by magic size - 1 and repeat.
\* The result is the position after the magic, or -1.
RECURSIVE SfxScan(_, _, _)
SfxScan(f, pos, magic) ==
    LET count == Min(CHUNK_SIZE, Avail(f, pos))
        eof == Avail(f, pos) < CHUNK_SIZE
        at == MemMem(Bytes(f, pos, count), magic)
    IN IF count < Len(magic) THEN -1
       ELSE IF at >= 0 THEN (pos + count) - (count - at) + Len(magic)
       ELSE IF eof THEN -1
       ELSE SfxScan(f, pos + count + 1 - Len(magic), magic)

\* A line on stdout: a hash record of one of the three kinds, or other text.
OutLine(kind, done, salt, iv, data, lg2, tail) ==
    [kind |-> kind, done |-> done, base |-> BaseName, salt |-> salt, iv |-> iv,
     crc |-> <<>>, pack |-> 0, unp |-> 0, data |-> data, method |-> 0, lg2 |-> lg2,
     tail |-> tail]

\* A line that printf wrote to stdout and that is no hash record.
TextLine(text) == OutLine("text", TRUE, <<>>, <<>>, <<>>, 0, <<text>>)

\* ------------------------------------------------------- RAR3 file header
\* The parse of one -p mode file header is a chain of steps over a record
\* h: st is "ok" while the parse goes on and otherwise how it ended; pos is
\* the stream position; ext is ext_time_size.
R3Fail(h, msg) == [h EXCEPT !.st = "err", !.msgs = Append(@, msg)]

\* The fixed fields without the 0x8000 check.
R3Fixed_IgnoreLong(pos, hdr) ==
    [st |-> "ok",
     pos |-> pos, flags |-> U16(hdr, 3), head_size |-> U16(hdr, 5),
     pack |-> U32(hdr, 7), unp |-> U32(hdr, 11), method |-> hdr[26],
     crc |-> SubSeq(hdr, 17, 20), fsz |-> U16(hdr, 26), name |-> <<>>, named |-> FALSE,
     salt |-> Zero(8), ext |-> U16(hdr, 5) - 32, dump |-> <<>>,
     msgs |-> <<>>]

\* Lines 376-410: the 0x8000 check and the fields of the 32-byte block hdr,
\* which was read at pos - 32.
R3Fixed(pos, hdr) ==
    [st |-> IF HasFlag(U16(hdr, 3), F_LONG) THEN "ok" ELSE "noflag",
     pos |-> pos, flags |-> U16(hdr, 3), head_size |-> U16(hdr, 5),
     pack |-> U32(hdr, 7), unp |-> U32(hdr, 11), method |-> hdr[26],
     crc |-> SubSeq(hdr, 17, 20), fsz |-> U16(hdr, 26), name |-> <<>>, named |-> FALSE,
     salt |-> Zero(8), ext |-> U16(hdr, 5) - 32, dump |-> <<>>,
     msgs |-> IF HasFlag(U16(hdr, 3), F_LONG) THEN <<>> ELSE <<"flag 0x8000 unset">>]

\* Lines 412-459: the high words of the sizes.
\* szt is sizeof(size_t): the sizes are size_t, and the high words are lost
\* in a size_t of 32 bits.
R3Large(f, verb, szt, h) ==
    IF h.st # "ok" \/ ~HasFlag(h.flags, F_LARGE) THEN h
    ELSE IF Avail(f, h.pos) < 8 THEN R3Fail(h, "read failed")
    ELSE IF verb /\ szt < 8 THEN R3Fail(h, "64-bit sizes not supported")
    ELSE [h EXCEPT !.pos = @ + 8, !.ext = @ - 8,
                   !.pack = @ + (IF szt < 8 THEN 0
                                 ELSE Shl32(U32(Bytes(f, h.pos, 4), 0))),
                   !.unp = @ + (IF szt < 8 THEN 0
                                ELSE Shl32(U32(Bytes(f, h.pos + 4, 4), 0)))]

\* hexdump, lines 86-98, as called at lines 487-489 and 495-497: with -v
\* the encoded name and the decoded UTF-16 name are printed with printf.
NameDump(flags, raw, verb) ==
    IF ~(verb /\ HasFlag(flags, F_UNICODE)) THEN <<>>
    ELSE <<TextLine("! Encoded filenames")>>
           \o (IF DecodeFileName(raw, Len(CStr(SubSeq(raw, 1, Min(Len(raw), FILE_NAME_BUF - 1)))))
                   # <<>>
               THEN <<TextLine("! UTF16 filename")>> ELSE <<>>)

\* Lines 461-506: the file name.
R3Name(f, verb, h) ==
    IF h.st # "ok" THEN h
    ELSE IF h.fsz > FILE_NAME_BUF THEN R3Fail(h, "check_fread failed")
    ELSE IF h.fsz = 0 \/ Avail(f, h.pos) < h.fsz THEN R3Fail(h, "read failed")
    ELSE [h EXCEPT !.pos = @ + h.fsz, !.ext = @ - h.fsz, !.named = TRUE,
                   !.name = FileName(h.flags, Bytes(f, h.pos, h.fsz)),
                   !.dump = NameDump(h.flags, Bytes(f, h.pos, h.fsz), verb),
                   !.msgs = Append(@, "! file name")]

\* Lines 512-521: the salt.
R3Salt(f, h) ==
    IF h.st # "ok" \/ ~HasFlag(h.flags, F_SALT) THEN h
    ELSE IF Avail(f, h.pos) < 8 THEN R3Fail(h, "read failed")
    ELSE [h EXCEPT !.pos = @ + 8, !.ext = @ - 8, !.salt = Bytes(f, h.pos, 8)]

\* Lines 523-538: the extended time, read into the 32 bytes of rejbuf.
R3ExtTime(f, h) ==
    IF h.st # "ok" \/ ~HasFlag(h.flags, F_EXTTIME) THEN h
    ELSE IF h.ext < 0 \/ h.ext > 32 THEN R3Fail(h, "check_fread failed")
    ELSE IF h.ext = 0 \/ Avail(f, h.pos) < h.ext THEN R3Fail(h, "read failed")
    ELSE [h EXCEPT !.pos = @ + h.ext]

R3Kind_NoSeek(h) ==
    IF h.st # "ok" THEN h
    ELSE IF HasFlag(h.flags, F_SOLID)
         THEN [h EXCEPT !.st = "solid", !.msgs = Append(@, "! Solid")]
    ELSE IF (h.flags \div 32) % 8 = 7 THEN [h EXCEPT !.st = "dir"]
    ELSE IF ~HasFlag(h.flags, F_ENC)
         THEN [h EXCEPT !.st = "plain", !.msgs = Append(@, "! not encrypted")]
    ELSE [h EXCEPT !.st = "cand"]

\* Lines 540-565: solid entries, directories and entries that are not
\* encrypted are skipped by their packed size; the rest are candidates.
R3Kind(h) ==
    IF h.st # "ok" THEN h
    ELSE IF HasFlag(h.flags, F_SOLID)
         THEN [h EXCEPT !.st = "solid", !.pos = @ + h.pack, !.msgs = Append(@, "! Solid")]
    ELSE IF (h.flags \div 32) % 8 = 7 THEN [h EXCEPT !.st = "dir", !.pos = @ + h.pack]
    ELSE IF ~HasFlag(h.flags, F_ENC)
         THEN [h EXCEPT !.st = "plain", !.pos = @ + h.pack,
                        !.msgs = Append(@, "! not encrypted")]
    ELSE [h EXCEPT !.st = "cand"]

\* Lines 376-565 for the block hdr read at pos - 32: the entry is rejected
\* (err), ends the loop (noflag), is skipped (solid, dir, plain) or is a
\* candidate (cand); pos is the stream position afterwards.
R3FileHeader(f, pos, hdr, verb, szt) ==
    R3Kind(R3ExtTime(f, R3Salt(f, R3Name(f, verb, R3Large(f, verb, szt, R3Fixed(pos, hdr))))))

\* The append without the size given to snprintf.
GecosAppend_NoSize(g, glen, name) ==
    IF glen + Len(name) < LINE_BUFFER_SIZE /\ glen = Len(g) THEN g \o name \o <<32>> ELSE g

\* Lines 508-510: the string in gecos after the name is appended at
\* gecos_len; snprintf writes at most size - 1 characters.
GecosAppend(g, glen, name) ==
    LET size == LINE_BUFFER_SIZE - glen - 1
        text == name \o <<32>>
    IN IF glen + Len(name) < LINE_BUFFER_SIZE /\ glen = Len(g)
       THEN g \o SubSeq(text, 1, Min(Len(text), Max(size - 1, 0)))
       ELSE g

\* gecos_len after lines 508-510: snprintf returns the untruncated length.
GecosLen(glen, name) ==
    IF glen + Len(name) < LINE_BUFFER_SIZE THEN glen + Len(name) + 1 ELSE glen

\* Values an uninitialized byte of a read buffer may hold, and a buffer of n
\* such bytes (all of one value here).
GarbageBytes == {0, 170}
Junk(n, g) == [i \in 1..n |-> g]

\* Lines 595-654: the record buffered for an admitted candidate.  got are
\* the bytes fread delivered, junk what the buffer holds after them.
BestRecord(r, got, junk) ==
    [kind |-> "RAR3_1", done |-> TRUE, base |-> BaseName, salt |-> Hex(r.salt), iv |-> <<>>,
     crc |-> Hex(r.crc), pack |-> r.pack, unp |-> r.unp, data |-> Hex(got \o junk),
     method |-> r.method, lg2 |-> 0, tail |-> <<>>]

\* best_len after line 654: the ciphertext is counted once per byte.
BestLen(r) == (BaseNameLen + 10) + 16 + 1 + 8 + (3 + Digits(r.pack) + Digits(r.unp)) + 2
              + r.pack + 7

\* ------------------------------------------------------------ RAR5 inputs
\* rar2john.h (not in src/): header types, flags and field sizes of RAR5.
HEAD_MAIN == 1
HEAD_FILE == 2
HEAD_SERVICE == 3
HEAD_CRYPT == 4
HEAD_ENDARC == 5
HFL_EXTRA == 1
HFL_DATA == 2
MHFL_VOLNUMBER == 2
FHFL_UTIME == 2
FHFL_CRC32 == 4
CHFL_CRYPT_PSWCHECK == 1
FHEXTRA_CRYPT == 1
FHEXTRA_CRYPT_PSWCHECK == 1
CRYPT_VERSION == 0
CRYPT5_KDF_LG2_COUNT_MAX == 24
SIZE_SALT50 == 16
SIZE_INITV == 16
SIZE_PSWCHECK == 12
SIZE_PSWCHECK_CSUM == 4

\* SHA-256 (sha2.h, not in src/), cut to the 4 bytes the crypt header
\* stores: a stand-in that depends on every byte of its input.
RECURSIVE ByteSum(_)
ByteSum(b) == IF b = <<>> THEN 0 ELSE Head(b) + ByteSum(Tail(b))
Sha256Head(b) == <<ByteSum(b) % 256, (ByteSum(b) \div 256) % 256, Len(b), 90>>

\* The crypt record of an extra area (all varints one byte wide).
ExtraCrypt(flags, lg2, seed) ==
    <<1 + 1 + 1 + 1 + SIZE_SALT50 + SIZE_INITV + SIZE_PSWCHECK, FHEXTRA_CRYPT, 0, flags, lg2>>
      \o Fill(SIZE_SALT50, seed) \o Fill(SIZE_INITV, seed + 32) \o Fill(SIZE_PSWCHECK, seed + 64)

\* A file-time record of an extra area: type 3, a flags byte and 4 bytes
\* of time.
ExtraTime == <<6, 3, 5, 5, 5, 5, 5>>

\* One RAR5 block: what follows the flags in the header, the extra area
\* and the data area.
R5Block(typ, fields, extra, data) ==
    [typ |-> typ, fields |-> fields, extra |-> extra, data |-> data,
     dsize |-> IF data # <<>> THEN <<Len(data)>> ELSE <<>>]

\* The 10-byte varint of 2^64 - k, for k in 1..127.
WrapVInt(k) == <<128 + (128 - k)>> \o [i \in 1..8 |-> 255] \o <<1>>

\* The fields of a file or service header: file flags, unpacked size,
\* attributes, compression info, host OS, name length, name.
R5FileFields(name) == <<0, 3, 32, 0, 0, Len(name)>> \o name

R5CryptFields(pswcheck, lg2, seed) ==
    <<0, IF pswcheck THEN CHFL_CRYPT_PSWCHECK ELSE 0, lg2>> \o Fill(SIZE_SALT50, seed)
      \o (IF pswcheck
          THEN Fill(SIZE_PSWCHECK, seed + 64) \o Sha256Head(Fill(SIZE_PSWCHECK, seed + 64))
          ELSE <<>>)

Rar5Menu == <<
    \* 1: file, crypt record alone in the extra area
    R5Block(HEAD_FILE, R5FileFields(<<97>>), ExtraCrypt(1, 15, 16), <<201, 202>>),
    \* 2: file, a time record and then the crypt record
    R5Block(HEAD_FILE, R5FileFields(<<98>>), ExtraTime \o ExtraCrypt(1, 16, 17), <<211>>),
    \* 3: file that is not encrypted
    R5Block(HEAD_FILE, R5FileFields(<<99>>), <<>>, <<221, 222, 223>>),
    \* 4: service header with a crypt record
    R5Block(HEAD_SERVICE, R5FileFields(<<67, 77, 84>>), ExtraCrypt(1, 15, 18), <<231>>),
    \* 5: crypt header with a password check
    R5Block(HEAD_CRYPT, R5CryptFields(TRUE, 15, 19), <<>>, <<>>),
    \* 6: crypt header without a password check
    R5Block(HEAD_CRYPT, R5CryptFields(FALSE, 14, 20), <<>>, <<>>),
    \* 7: end of archive
    R5Block(HEAD_ENDARC, <<0>>, <<>>, <<>>),
    \* 8: file whose crypt record has no password check
    R5Block(HEAD_FILE, R5FileFields(<<100>>), ExtraCrypt(0, 15, 21), <<241>>),
    \* 9: crypt header whose iteration exponent is too large
    R5Block(HEAD_CRYPT, R5CryptFields(TRUE, CRYPT5_KDF_LG2_COUNT_MAX + 1, 22), <<>>, <<>>),
    \* 10: crypt header of a later crypt version
    R5Block(HEAD_CRYPT, <<CRYPT_VERSION + 1>> \o Tail(R5CryptFields(TRUE, 15, 23)), <<>>, <<>>),
    \* 11: file that is not encrypted, without data, whose data size is
    \* declared as 2^64 minus the size of its header (4 bytes of CRC, one of
    \* block size, type, flags, the data size and the fields)
    [R5Block(HEAD_FILE, R5FileFields(<<101>>), <<>>, <<>>)
       EXCEPT !.dsize = WrapVInt(4 + 1 + 2 + 10 + Len(R5FileFields(<<101>>)))]
>>

R5BlockBytes(b) ==
    LET flags == (IF b.extra # <<>> THEN HFL_EXTRA ELSE 0) + (IF b.dsize # <<>> THEN HFL_DATA ELSE 0)
        content == <<b.typ, flags>>
                     \o (IF b.extra # <<>> THEN <<Len(b.extra)>> ELSE <<>>)
                     \o b.dsize
                     \o b.fields \o b.extra
    IN Fill(4, 240) \o <<Len(content)>> \o content \o b.data

R5MainBytes == R5BlockBytes(R5Block(HEAD_MAIN, <<0>>, <<>>, <<>>))

Rar5Bytes(d) ==
    Truncated((IF d.pre = "mz" THEN SfxStub ELSE <<>>) \o RAR5_MAGIC \o R5MainBytes
                \o Concat([i \in 1..Len(d.items) |-> R5BlockBytes(Rar5Menu[d.items[i]])]),
              d.cut)

Rar5Descs ==
    {Desc("rar5", "none", FALSE, 0, s, 0, 0) : s \in SeqsUpTo(1..Len(Rar5Menu), MaxBlocks)}
      \cup {Desc("rar5", "mz", FALSE, 0, s, 0, 0) : s \in {<<>>, <<1>>, <<5, 1>>}}
      \cup {Desc("rar5", "none", FALSE, 0, <<5, 3>>, 0, c) : c \in {5, 16}}

\* ----------------------------------------------------------- the archives
Archives == Rar3Descs \cup Rar5Descs \cup OtherDescs

FileOf(d) ==
    IF d.fmt = "rar3" THEN Rar3Bytes(d)
    ELSE IF d.fmt = "rar5" THEN Rar5Bytes(d)
    ELSE OtherBytes(d)

\* ------------------------------------------------------------ process_file
R3Locals0 ==
    /\ type' = 1
    /\ bestsize' = NoBestSize
    /\ best' = <<>>
    /\ best_len' = 0
    /\ gecos' = <<>>
    /\ gecos_len' = 0

\* The function returns: what it still holds is lost, and the next archive
\* starts with nothing read and nothing printed.
Return(held) ==
    /\ pc' = "idle"
    /\ live' = {}
    /\ leaks' = leaks + Cardinality(held)
    /\ arch' = NoArch
    /\ file' = <<>>
    /\ out' = <<>>
    /\ errlog' = <<>>

\* rar2john's loop over argv calls process_file, lines 204-235: allocate
\* gecos, open the file, read the marker block, reject pre-1.50 archives.
ProcessFileOpen ==
    /\ pc = "idle"
    /\ narch < MaxArchives
    /\ \E a \in Archives :
         LET f == FileOf(a)
             marker == Bytes(f, 0, RAR3_MAGIC_SIZE)
         IN /\ arch' = a
            /\ file' = f
            /\ narch' = narch + 1
            /\ R3Locals0
            /\ out' = <<>>
            /\ IF a.fmt = "missing"
               THEN /\ live' = {"gecos"}
                    /\ errlog' = <<"! open failed">>
                    /\ fpos' = 0
                    /\ pc' = "err"
               ELSE IF Len(f) < RAR3_MAGIC_SIZE
               THEN /\ live' = {"gecos", "fp"}
                    /\ errlog' = <<"! Not a RAR file">>
                    /\ fpos' = Len(f)
                    /\ pc' = "err"
               ELSE IF SubSeq(marker, 1, RAR_OLD_MAGIC_SIZE) = RAR_OLD_MAGIC
               THEN /\ live' = {"gecos", "fp"}
                    /\ errlog' = <<"! Too old RAR file version">>
                    /\ fpos' = RAR3_MAGIC_SIZE
                    /\ pc' = "err"
               ELSE /\ live' = {"gecos", "fp"}
                    /\ errlog' = <<>>
                    /\ fpos' = RAR3_MAGIC_SIZE
                    /\ pc' = "dispatch"
    /\ UNCHANGED <<verbose, sizeof_size_t, leaks, r5vars, globals, selvars, funvars>>

\* Lines 237-273: a RAR3 marker goes on; an MZ file is scanned for the RAR3
\* magic; anything else, and an MZ file without it, is given to
\* process_file5.
Dispatch ==
    /\ pc = "dispatch"
    /\ LET marker == Bytes(file, 0, RAR3_MAGIC_SIZE)
           at == SfxScan(file, fpos, RAR3_MAGIC)
       IN IF marker = RAR3_MAGIC
          THEN /\ pc' = "archive_hdr"
               /\ UNCHANGED <<fpos, live, ret5>>
          ELSE IF SubSeq(marker, 1, 2) = MZ_MAGIC
          THEN IF at >= 0
               THEN /\ pc' = "archive_hdr"
                    /\ fpos' = at
                    /\ UNCHANGED <<live, ret5>>
               ELSE /\ pc' = "p5_open"
                    /\ ret5' = "mz"
                    /\ fpos' = Len(file)
                    /\ UNCHANGED live
          ELSE /\ pc' = "p5_open"
               /\ ret5' = "plain"
               /\ live' = {}
               /\ UNCHANGED fpos
    /\ UNCHANGED <<runvars, type, bestsize, best, best_len, gecos, gecos_len, leaks,
                   out, errlog, fpos5, found, globals, selvars, funvars>>

\* Lines 275-301: the archive header block, the encryption mode, the skip
\* over an archive comment.
ArchiveHeader ==
    /\ pc = "archive_hdr"
    /\ LET hdr == Bytes(file, fpos, 13)
           head_size == U16(hdr, 5)
       IN IF Avail(file, fpos) < 13
          THEN /\ pc' = "err"
               /\ errlog' = Append(errlog, "read failed")
               /\ fpos' = fpos + Avail(file, fpos)
               /\ UNCHANGED type
          ELSE IF hdr[3] # 115
          THEN /\ pc' = "err"
               /\ errlog' = Append(errlog, "archive_hdr_block[2] must be 0x73")
               /\ fpos' = fpos + 13
               /\ UNCHANGED type
          ELSE /\ pc' = "next_file_header"
               /\ type' = IF HasFlag(U16(hdr, 3), AF_HP) THEN 0 ELSE 1
               /\ fpos' = fpos + 13 + (IF head_size > 13 THEN head_size - 13 ELSE 0)
               /\ UNCHANGED errlog
    /\ UNCHANGED <<runvars, bestsize, best, best_len, gecos, gecos_len, live, leaks, out,
                   r5vars, globals, selvars, funvars>>

\* Lines 303-345 and 364-657, one pass from next_file_header to the next
\* goto: read a 32-byte header block; at end of file or at an unknown type
\* go to BailOut; in -hp mode print the start of the record; in -p mode
\* parse the entry, append its name to gecos, skip it or offer it to the
\* selector and buffer its record.
NextFileHeader ==
    /\ pc = "next_file_header"
    /\ IF Avail(file, fpos) < 32
       THEN /\ pc' = "BailOut"
            /\ fpos' = fpos + Avail(file, fpos)
            /\ errlog' = IF verbose THEN Append(errlog, "! End of file") ELSE errlog
            /\ UNCHANGED <<bestsize, best, best_len, gecos, gecos_len, live, out>>
       ELSE IF type = 1 /\ file[fpos + 3] # 122 /\ file[fpos + 3] # 116
       THEN /\ pc' = "BailOut"
            /\ fpos' = fpos + 32
            /\ errlog' = Append(errlog, "! Not recognising any more headers")
            /\ UNCHANGED <<bestsize, best, best_len, gecos, gecos_len, live, out>>
       ELSE IF type = 0
       THEN /\ pc' = "hp_tail"
            /\ fpos' = fpos + 32
            /\ out' = Append(out, OutLine("RAR3_0", FALSE, <<>>, <<>>, <<>>, 0, <<>>))
            /\ UNCHANGED <<bestsize, best, best_len, gecos, gecos_len, live, errlog>>
       ELSE \E r \in {R3FileHeader(file, fpos + 32, Bytes(file, fpos, 32), verbose, sizeof_size_t)} :
            \E got \in {Min(r.pack, Avail(file, r.pos))} :
            /\ gecos' = IF r.named THEN GecosAppend(gecos, gecos_len, r.name) ELSE gecos
            /\ gecos_len' = IF r.named THEN GecosLen(gecos_len, r.name) ELSE gecos_len
            /\ out' = out \o r.dump
            /\ IF r.st = "noflag"
               THEN /\ pc' = "BailOut"
                    /\ fpos' = r.pos
                    /\ errlog' = errlog \o r.msgs
                    /\ UNCHANGED <<bestsize, best, best_len, live>>
               ELSE IF r.st = "err"
               THEN /\ pc' = "err"
                    /\ fpos' = r.pos
                    /\ errlog' = errlog \o r.msgs
                    /\ UNCHANGED <<bestsize, best, best_len, live>>
               ELSE IF r.st # "cand" \/ BetterAlready(bestsize, r.pack, r.unp, r.method)
               THEN /\ pc' = "next_file_header"
                    /\ fpos' = IF r.st = "cand" THEN r.pos + r.pack ELSE r.pos
                    /\ errlog' = errlog \o r.msgs
                    /\ UNCHANGED <<bestsize, best, best_len, live>>
               ELSE \E g \in GarbageBytes :
                    /\ pc' = "next_file_header"
                    /\ fpos' = r.pos + got
                    /\ errlog' = errlog \o r.msgs
                                   \o (IF got < r.pack
                                       THEN <<"! Error while reading archive">> ELSE <<>>)
                    /\ bestsize' = [pack |-> r.pack, unp |-> r.unp, method |-> r.method]
                    /\ best' = <<BestRecord(r, Bytes(file, r.pos, got),
                                            Junk(r.pack - got, g))>>
                    /\ best_len' = BestLen(r)
                    /\ live' = live \cup {"best"}
    /\ UNCHANGED <<runvars, type, leaks, r5vars, globals, selvars, funvars>>

\* Lines 346-363: seek to the last 24 bytes, read them and print the salt,
\* the block and the end of the record.  The read fails when the device
\* does (ok = FALSE) or when the file has no 24 bytes.
HpTail ==
    /\ pc = "hp_tail"
    /\ \E ok \in BOOLEAN :
         LET at == IF Len(file) >= 24 THEN Len(file) - 24 ELSE fpos
             buf == Bytes(file, at, 24)
         IN IF ok /\ Avail(file, at) >= 24
            THEN /\ out' = [out EXCEPT ![Len(out)] =
                              OutLine("RAR3_0", TRUE, Hex(SubSeq(buf, 1, 8)), <<>>,
                                      Hex(SubSeq(buf, 9, 24)), 0, <<BaseName>>)]
                 /\ fpos' = at + 24
                 /\ UNCHANGED errlog
            ELSE /\ errlog' = Append(errlog, "read failed")
                 /\ fpos' = at
                 /\ UNCHANGED out
    /\ pc' = "err"
    /\ UNCHANGED <<runvars, type, bestsize, best, best_len, gecos, gecos_len, live, leaks,
                   r5vars, globals, selvars, funvars>>

\* strncat(best, gecos, LINE_BUFFER_SIZE - best_len - 1), the count taken
\* as size_t.
GecosTail(g, blen) ==
    IF LINE_BUFFER_SIZE - blen - 1 < 0 THEN g
    ELSE SubSeq(g, 1, Min(Len(g), LINE_BUFFER_SIZE - blen - 1))

\* Lines 659-670: print the buffered record with the names, or report that
\* there is none.
BailOut ==
    /\ pc = "BailOut"
    /\ IF best # <<>>
       THEN /\ out' = Append(out, [best[1] EXCEPT !.tail = GecosTail(gecos, best_len)])
            /\ errlog' = errlog
                 \o (IF verbose THEN <<"! Found a valid -p mode candidate">> ELSE <<>>)
                 \o (IF bestsize.unp < (IF bestsize.method > 48 THEN 5 ELSE 1)
                     THEN <<"! WARNING best candidate found is too small">> ELSE <<>>)
       ELSE /\ errlog' = Append(errlog, "! Did not find a valid encrypted candidate")
            /\ UNCHANGED out
    /\ pc' = "err"
    /\ UNCHANGED <<runvars, r3vars, live, leaks, r5vars, globals, selvars, funvars>>

\* The err label without its fclose.
Err_KeepFp ==
    /\ pc = "err"
    /\ R3Locals0
    /\ fpos' = 0
    /\ Return(live \ {"best", "gecos"})
    /\ UNCHANGED <<narch, verbose, sizeof_size_t, r5vars, globals, selvars, funvars>>

\* Lines 672-677 and the return: close fp if it is set, free best and
\* gecos.
Err ==
    /\ pc = "err"
    /\ R3Locals0
    /\ fpos' = 0
    /\ Return(live \ {"fp", "best", "gecos"})
    /\ UNCHANGED <<narch, verbose, sizeof_size_t, r5vars, globals, selvars, funvars>>

\* ------------------------------------------------------------ RAR5 reader
\* A uint64_t is kept as four 16-bit limbs, lowest first, so that its
\* arithmetic is exact modulo 2^64.
U64Zero == <<0, 0, 0, 0>>

RECURSIVE Pow2(_)
Pow2(k) == IF k = 0 THEN 1 ELSE 2 * Pow2(k - 1)

\* accum << shift for a 7-bit accum: bits shifted past bit 63 are lost.
Limb(accum, shift, j) ==
    IF j = (shift \div 16) + 1 THEN (accum * Pow2(shift % 16)) % 65536
    ELSE IF j = (shift \div 16) + 2 THEN (accum * Pow2(shift % 16)) \div 65536
    ELSE 0
Shl64(accum, shift) ==
    <<Limb(accum, shift, 1), Limb(accum, shift, 2), Limb(accum, shift, 3), Limb(accum, shift, 4)>>

\* a + b in uint64_t: the carry out of the highest limb is lost.
RECURSIVE Carry(_, _, _)
Carry(a, b, j) == IF j = 0 THEN 0 ELSE (a[j] + b[j] + Carry(a, b, j - 1)) \div 65536
Sum16(a, b, j) == (a[j] + b[j] + Carry(a, b, j - 1)) % 65536
Add64(a, b) == <<Sum16(a, b, 1), Sum16(a, b, 2), Sum16(a, b, 3), Sum16(a, b, 4)>>

\* A uint64_t as an integer of the model; one that does not fit is taken as
\* the largest integer.
U64Int(n) == IF n[3] = 0 /\ n[4] = 0 /\ n[2] < 32768 THEN n[1] + 65536 * n[2] ELSE SIZE_MAX

\* The result of read_vuint: the value returned (0 is failure), *n as limbs
\* and as an integer, the bytes taken from the stream and what was added
\* to *bytes_read.
VInt(len, n, used, counted) ==
    [len |-> len, n |-> n, val |-> U64Int(n), used |-> used, counted |-> counted]

\* The loop with 9 turns.
RECURSIVE VIntFrom_Limit9(_, _, _, _)
VIntFrom_Limit9(f, pos, i, n) ==
    IF i = 9 THEN VInt(0, n, i, 0)
    ELSE IF Avail(f, pos + i) < 1 THEN VInt(0, n, i, 0)
    ELSE IF f[pos + i + 1] < 128
         THEN VInt(i + 1, Add64(n, Shl64(f[pos + i + 1] % 128, 7 * i)), i + 1, i + 1)
    ELSE VIntFrom_Limit9(f, pos, i + 1, Add64(n, Shl64(f[pos + i + 1] % 128, 7 * i)))

\* read_vuint's loop, lines 729-740, from turn i on with *n = n: a failed
\* fread or ten bytes with the continuation bit give 0.
RECURSIVE VIntFrom(_, _, _, _)
VIntFrom(f, pos, i, n) ==
    IF i = 10 THEN VInt(0, n, i, 0)
    ELSE IF Avail(f, pos + i) < 1 THEN VInt(0, n, i, 0)
    ELSE IF f[pos + i + 1] < 128
         THEN VInt(i + 1, Add64(n, Shl64(f[pos + i + 1] % 128, 7 * i)), i + 1, i + 1)
    ELSE VIntFrom(f, pos, i + 1, Add64(n, Shl64(f[pos + i + 1] % 128, 7 * i)))

read_vuint(f, pos) == VIntFrom(f, pos, 0, U64Zero)

\* read_buf into a buffer that held old: it fails only when not a single
\* byte could be read; what it could not read keeps its old content.
read_buf(f, pos, len, old) ==
    LET got == Min(len, Avail(f, pos))
    IN [ok |-> got >= 1, val |-> Bytes(f, pos, got) \o SubSeq(old, got + 1, len)]

\* base64_convert_cp(.., e_b64_raw, .., e_b64_hex, ..) (not in src/): the
\* bytes in base 16.
b64hex(b) == Hex(b)

\* The globals of the RAR5 reader as one value.
Globals(enc, use, iter, salt, psw) ==
    [enc |-> enc, use |-> use, iter |-> iter, salt |-> salt, psw |-> psw]

Rar5Line(salt, lg2, iv, psw) ==
    OutLine("rar5", TRUE, b64hex(salt), b64hex(iv), b64hex(psw), lg2, <<>>)

\* An integer of the model as a uint64_t.
U64Of(x) == <<x % 65536, x \div 65536, 0, 0>>

\* A run of reads that stops at the first failure: ok, the stream position
\* and the values read so far, as integers (v) and as uint64_t (w).
Cur(pos) == [ok |-> TRUE, pos |-> pos, v |-> <<>>, w |-> <<>>]
Took(c, r) == [ok |-> r.len # 0, pos |-> c.pos + r.len,
               v |-> IF r.len # 0 THEN Append(c.v, r.val) ELSE c.v,
               w |-> IF r.len # 0 THEN Append(c.w, r.n) ELSE c.w]
Push(c, x) == [c EXCEPT !.v = Append(@, x), !.w = Append(@, U64Of(x))]

\* if (!read_vuint(..)) return 0;
RdV(f, c) == IF c.ok THEN Took(c, read_vuint(f, c.pos)) ELSE c

\* if (!read_uint8(..)) return 0;
RdU8(f, c) ==
    IF ~c.ok THEN c
    ELSE IF Avail(f, c.pos) < 1 THEN [c EXCEPT !.ok = FALSE]
    ELSE [c EXCEPT !.pos = @ + 1, !.v = Append(@, f[c.pos + 1]),
                   !.w = Append(@, U64Of(f[c.pos + 1]))]

\* if (!read_uint32(..)) return 0; the value is not used.
RdU32(f, c) ==
    IF ~c.ok THEN c
    ELSE IF Avail(f, c.pos) < 4 THEN [c EXCEPT !.ok = FALSE, !.pos = @ + Avail(f, c.pos)]
    ELSE [c EXCEPT !.pos = @ + 4]

\* What a call changes: globals, lines on stdout and stderr, found.
R5Effect(G, lines, errs, found5) ==
    [G |-> G, lines |-> lines, errs |-> errs, found |-> found5]

\* Lines 779-788: the three buffers of the crypt record and the record
\* printed from them.
Extra50Bufs(G, Lg2Count, salt, iv, psw) ==
    IF ~salt.ok THEN R5Effect(G, <<>>, <<>>, 0)
    ELSE IF ~iv.ok \/ ~psw.ok THEN R5Effect([G EXCEPT !.salt = salt.val], <<>>, <<>>, 0)
    ELSE R5Effect([G EXCEPT !.salt = salt.val, !.psw = psw.val],
                  <<Rar5Line(salt.val, Lg2Count, iv.val, psw.val)>>, <<>>, 1)

\* Lines 774-778, c after read_uint8(Lg2Count); g is the value of the
\* uninitialized bytes of InitV.
Extra50Count(f, G, g, c) ==
    IF ~c.ok THEN R5Effect(G, <<>>, <<>>, 0)
    ELSE IF c.v[3] >= CRYPT5_KDF_LG2_COUNT_MAX
         THEN R5Effect(G, <<>>, <<"Lg2Count >= CRYPT5_KDF_LG2_COUNT_MAX">>, 0)
    ELSE Extra50Bufs(G, c.v[3],
                     read_buf(f, c.pos, SIZE_SALT50, G.salt),
                     read_buf(f, c.pos + SIZE_SALT50, SIZE_INITV, Junk(SIZE_INITV, g)),
                     read_buf(f, c.pos + SIZE_SALT50 + SIZE_INITV, SIZE_PSWCHECK, G.psw))

\* Lines 768-773, c after read_vuint(EncVersion) and read_vuint(Flags).
Extra50Crypt(f, G, g, c) ==
    IF ~c.ok THEN R5Effect(G, <<>>, <<>>, 0)
    ELSE IF ~HasFlag(c.v[2], FHEXTRA_CRYPT_PSWCHECK)
         THEN R5Effect(G, <<>>, <<"UsePswCheck is OFF">>, 0)
    ELSE Extra50Count(f, G, g, RdU8(f, c))

RECURSIVE ProcessExtra50(_, _, _, _, _, _)

\* Lines 762-765, ft the result of read_vuint(FieldType), pos the position
\* after it: a record that is not the crypt record of a file or service
\* header starts the loop again at pos.
Extra50Type(f, pos, bytes_left, HeaderType, G, g, ft) ==
    IF ft.len = 0 THEN R5Effect(G, <<>>, <<>>, 0)
    ELSE IF HeaderType \in {HEAD_FILE, HEAD_SERVICE} /\ ft.val = FHEXTRA_CRYPT
         THEN Extra50Crypt(f, G, g, RdV(f, RdV(f, Cur(pos))))
    ELSE ProcessExtra50(f, pos, bytes_left, HeaderType, G, g)

\* Lines 757-762, fs the result of read_vuint(FieldSize) at pos.
Extra50Size(f, pos, bytes_left, HeaderType, G, g, fs) ==
    IF fs.len = 0 \/ fs.len > 3 \/ bytes_left - fs.len - fs.val < 0
    THEN R5Effect(G, <<>>, <<>>, 0)
    ELSE Extra50Type(f, pos + fs.len + read_vuint(f, pos + fs.len).len,
                     bytes_left - fs.len - fs.val, HeaderType, G, g,
                     read_vuint(f, pos + fs.len))

\* ProcessExtra50, lines 756-791, from the record at pos on.
ProcessExtra50(f, pos, bytes_left, HeaderType, G, g) ==
    Extra50Size(f, pos, bytes_left, HeaderType, G, g, read_vuint(f, pos))

RECURSIVE Extra50Reads(_, _, _, _)

\* Lines 756-765 again, keeping only where the loop reads: the offsets at
\* which ProcessExtra50 calls read_vuint for a FieldSize, in order.
Extra50ReadsAt(f, pos, bytes_left, HeaderType, fs) ==
    IF fs.len = 0 \/ fs.len > 3 \/ bytes_left - fs.len - fs.val < 0 THEN <<pos>>
    ELSE IF read_vuint(f, pos + fs.len).len = 0 THEN <<pos>>
    ELSE IF HeaderType \in {HEAD_FILE, HEAD_SERVICE}
            /\ read_vuint(f, pos + fs.len).val = FHEXTRA_CRYPT THEN <<pos>>
    ELSE <<pos>> \o Extra50Reads(f, pos + fs.len + read_vuint(f, pos + fs.len).len,
                                 bytes_left - fs.len - fs.val, HeaderType)

Extra50Reads(f, pos, bytes_left, HeaderType) ==
    Extra50ReadsAt(f, pos, bytes_left, HeaderType, read_vuint(f, pos))

\* The result of read_rar5_header: next is the returned position of the
\* next block, 0 to stop.
R5Header(next, e) == [next |-> next, G |-> e.G, lines |-> e.lines, errs |-> e.errs,
                      found |-> e.found]
R5Stop(G, lines, errs) == R5Header(0, R5Effect(G, lines, errs, 0))
R5Go(next, G) == R5Header(next, R5Effect(G, <<>>, <<>>, 0))

\* Lines 807-823: with Encrypted set the block is taken as the IV.
R5EncryptedHeader(G, hiv) ==
    IF ~hiv.ok THEN R5Stop(G, <<>>, <<"could not read IV from header">>)
    ELSE R5Header(0, R5Effect(G, <<Rar5Line(G.salt, G.iter, hiv.val, G.psw)>>, <<>>, 1))

\* Lines 826-829: block_size, kept as HeadSize.
R5HeadSize(c, r) == [ok |-> r.len # 0, pos |-> c.pos + r.len,
                     v |-> Append(c.v, U64Int(Add64(r.n, U64Of(4 + r.len)))),
                     w |-> Append(c.w, Add64(r.n, U64Of(4 + r.len)))]
R5BlockSize(f, c) == IF c.ok THEN R5HeadSize(c, read_vuint(f, c.pos)) ELSE c

\* Lines 835-836: extra_size and data_size, 0 without their flags.
R5Size(f, c, flag) == IF c.ok /\ HasFlag(c.v[3], flag) THEN RdV(f, c) ELSE Push(c, 0)

\* Lines 824-836: the values are HeadSize, header_type, flags, extra_size,
\* data_size.
R5Common(f, pos) ==
    R5Size(f, R5Size(f, RdV(f, RdU8(f, R5BlockSize(f, RdU32(f, Cur(pos))))), HFL_EXTRA),
           HFL_DATA)

\* Lines 854-861: PswCheck, its checksum and the comparison.
R5CryptCheck(next, G, psw, sum) ==
    IF ~psw.ok THEN R5Stop(G, <<>>, <<>>)
    ELSE IF ~sum.ok THEN R5Stop([G EXCEPT !.psw = psw.val], <<>>, <<>>)
    ELSE R5Go(next, [G EXCEPT !.psw = psw.val, !.enc = 1,
                              !.use = (Sha256Head(psw.val) = sum.val)])

\* Lines 850-861, salt the result of read_buf(rar5_salt) at pos.
R5CryptSalt(f, next, G, g, pos, salt) ==
    IF ~salt.ok THEN R5Stop(G, <<>>, <<>>)
    ELSE IF ~G.use THEN R5Go(next, [G EXCEPT !.salt = salt.val, !.enc = 1])
    ELSE R5CryptCheck(next, [G EXCEPT !.salt = salt.val],
                      read_buf(f, pos + SIZE_SALT50, SIZE_PSWCHECK, G.psw),
                      read_buf(f, pos + SIZE_SALT50 + SIZE_PSWCHECK, SIZE_PSWCHECK_CSUM,
                               Junk(SIZE_PSWCHECK_CSUM, g)))

\* Lines 846-850, c after read_uint8(lg_2count).
R5CryptCount(f, next, G, g, c) ==
    IF ~c.ok THEN R5Stop(G, <<>>, <<>>)
    ELSE IF c.v[3] > CRYPT5_KDF_LG2_COUNT_MAX
         THEN R5Stop(G, <<TextLine("rar PBKDF2 iteration count too large")>>, <<>>)
    ELSE R5CryptSalt(f, next, [G EXCEPT !.iter = c.v[3]], g, c.pos,
                     read_buf(f, c.pos, SIZE_SALT50, G.salt))

\* Lines 844-846, c after read_vuint(enc_flags).
R5CryptFlags(f, next, G, g, c) ==
    IF ~c.ok THEN R5Stop(G, <<>>, <<>>)
    ELSE R5CryptCount(f, next, [G EXCEPT !.use = HasFlag(c.v[2], CHFL_CRYPT_PSWCHECK)], g,
                      RdU8(f, c))

\* Lines 842-843, c after read_vuint(crypt_version).
R5Crypt(f, next, G, g, c) ==
    IF ~c.ok THEN R5Stop(G, <<>>, <<>>)
    ELSE IF c.v[1] > CRYPT_VERSION
         THEN R5Stop(G, <<TextLine("bad rar crypt version byte")>>, <<>>)
    ELSE R5CryptFlags(f, next, G, g, RdV(f, c))

\* Lines 864-866, c after read_vuint(ArcFlags).
R5Main(f, next, G, c) ==
    IF ~c.ok THEN R5Stop(G, <<>>, <<>>)
    ELSE IF HasFlag(c.v[1], MHFL_VOLNUMBER) /\ ~RdV(f, c).ok THEN R5Stop(G, <<>>, <<>>)
    ELSE R5Go(next, G)

\* Lines 876-883: mtime and the CRC32, read with their flags.
R5Opt32(f, c, flag) == IF c.ok /\ HasFlag(c.v[1], flag) THEN RdU32(f, c) ELSE c

\* Lines 872-887: the values are FileFlags, UnpSize, FileAttr, CompInfo,
\* HostOS, NameSize.
R5FileHeader(f, pos) ==
    RdV(f, RdV(f, RdV(f, R5Opt32(f, R5Opt32(f, RdV(f, RdV(f, RdV(f, Cur(pos)))), FHFL_UTIME),
                                 FHFL_CRC32))))

\* Lines 888-891, c after the fields of the file header: skip the name and
\* process the extra area.
R5File(f, next, G, g, header_type, extra_size, c) ==
    IF ~c.ok THEN R5Stop(G, <<>>, <<>>)
    ELSE IF extra_size # 0
         THEN R5Header(next, ProcessExtra50(f, c.pos + c.v[6], extra_size, header_type, G, g))
    ELSE R5Go(next, G)

\* Line 896: CurBlockPos + HeadSize + data_size in uint64_t, returned as
\* size_t.  A sum beyond the model's integers is taken as the largest
\* integer, a position past the end of every file.  The sums of the
\* archives of the model are below 2^31 or wrap to CurBlockPos, so they
\* are the same in a size_t of 32 bits.
R5Next(CurBlockPos, c) == U64Int(Add64(Add64(U64Of(CurBlockPos), c.w[1]), c.w[5]))

\* Lines 840-896, c after the common fields.
R5Body(f, CurBlockPos, G, g, c) ==
    IF ~c.ok THEN R5Stop(G, <<>>, <<>>)
    ELSE IF c.v[2] = HEAD_CRYPT
         THEN R5Crypt(f, R5Next(CurBlockPos, c), G, g, RdV(f, Cur(c.pos)))
    ELSE IF c.v[2] = HEAD_MAIN
         THEN R5Main(f, R5Next(CurBlockPos, c), G, RdV(f, Cur(c.pos)))
    ELSE IF c.v[2] \in {HEAD_FILE, HEAD_SERVICE}
         THEN R5File(f, R5Next(CurBlockPos, c), G, g, c.v[2], c.v[4],
                     R5FileHeader(f, c.pos))
    ELSE IF c.v[2] = HEAD_ENDARC THEN R5Stop(G, <<>>, <<>>)
    ELSE R5Go(R5Next(CurBlockPos, c), G)

\* read_rar5_header, lines 807-896, for the block at CurBlockPos.
read_rar5_header(f, CurBlockPos, G, g) ==
    IF G.enc = 1
    THEN R5EncryptedHeader(G, read_buf(f, CurBlockPos, SIZE_INITV, Junk(SIZE_INITV, g)))
    ELSE R5Body(f, CurBlockPos, G, g, R5Common(f, CurBlockPos))

\* The globals as they are when the program starts, lines 685-688.
FreshGlobals == Globals(0, FALSE, 0, Zero(SIZE_SALT50), Zero(SIZE_PSWCHECK))

\* The block loop of process_file5, lines 941-950, as a whole: the lines it
\* prints from the block at pos on, for at most n blocks.
RECURSIVE P5Lines(_, _, _, _, _)
P5Lines(f, pos, G, g, n) ==
    IF n = 0 THEN <<>>
    ELSE read_rar5_header(f, pos, G, g).lines
           \o (IF read_rar5_header(f, pos, G, g).next = 0 THEN <<>>
               ELSE P5Lines(f, read_rar5_header(f, pos, G, g).next,
                            read_rar5_header(f, pos, G, g).G, g, n - 1))

\* ----------------------------------------------------------- process_file5
\* Lines 900-940: open the file again, read 8 bytes of magic, scan an MZ
\* file for the RAR5 magic; without the magic report and return 0, and
\* process_file goes to err.
P5Open ==
    /\ pc = "p5_open"
    /\ LET Magic == Bytes(file, 0, RAR5_MAGIC_SIZE)
           isMZ == SubSeq(Magic, 1, 2) = MZ_MAGIC
           at == IF isMZ THEN SfxScan(file, RAR5_MAGIC_SIZE, RAR5_MAGIC) ELSE -1
       IN IF Len(file) < RAR5_MAGIC_SIZE \/ (Magic # RAR5_MAGIC /\ at < 0)
          THEN /\ pc' = "err"
               /\ errlog' = Append(errlog, "! Not a RAR file")
               /\ UNCHANGED <<fpos5, found, live>>
          ELSE /\ pc' = "p5_loop"
               /\ fpos5' = IF at >= 0 THEN at ELSE RAR5_MAGIC_SIZE
               /\ found' = 0
               /\ live' = live \cup {"fp5"}
               /\ UNCHANGED errlog
    /\ UNCHANGED <<runvars, r3vars, leaks, out, ret5, globals, selvars, funvars>>

\* Lines 941-954: one turn of the block loop, a call of read_rar5_header
\* and the seek to the block it names; when it names none the loop ends,
\* the file is closed and a run that found nothing is reported.
P5Block ==
    /\ pc = "p5_loop"
    /\ \E g \in GarbageBytes :
       \E r \in {read_rar5_header(file, fpos5,
                    Globals(Encrypted, UsePswCheck, rar5_interations, rar5_salt, PswCheck),
                    g)} :
         /\ Encrypted' = r.G.enc
         /\ UsePswCheck' = r.G.use
         /\ rar5_interations' = r.G.iter
         /\ rar5_salt' = r.G.salt
         /\ PswCheck' = r.G.psw
         /\ out' = out \o r.lines
         /\ found' = found + r.found
         /\ IF r.next = 0
            THEN /\ pc' = "p5_close"
                 /\ live' = live \ {"fp5"}
                 /\ errlog' = errlog \o r.errs
                      \o (IF found + r.found = 0
                          THEN <<"! Did not find a valid encrypted candidate">> ELSE <<>>)
                 /\ UNCHANGED fpos5
            ELSE /\ pc' = "p5_loop"
                 /\ fpos5' = r.next
                 /\ errlog' = errlog \o r.errs
                 /\ UNCHANGED live
    /\ UNCHANGED <<runvars, r3vars, leaks, ret5, selvars, funvars>>

\* Line 956 and lines 256-257, 268-269: process_file5 returns 1 and
\* process_file returns at once.
P5Close ==
    /\ pc = "p5_close"
    /\ R3Locals0
    /\ fpos' = 0
    /\ fpos5' = 0
    /\ found' = 0
    /\ Return(live)
    /\ UNCHANGED <<narch, verbose, sizeof_size_t, ret5, globals, selvars, funvars>>

\* ---------------------------------------------------- the selector alone
\* Sizes and methods of the candidates offered to the selector: unpacked
\* sizes around the thresholds 1, 4 and 8, stored and compressed.
SelPacks == {16, 32, 48}
SelUnps == {0, 1, 2, 4, 5, 8, 9}
SelMethods == {48, 51}

Candidate(pack, unp, method) == [pack |-> pack, unp |-> unp, method |-> method]

\* Lines 574-593 for a candidate of any sizes: it is skipped or becomes
\* bestsize.  hist keeps the incumbent, the candidate, the decision, and
\* whether a candidate admitted earlier had an unpacked size >= 8.
Offer ==
    /\ pc = "idle"
    /\ narch = 0
    /\ offers < MaxOffers
    /\ \E pack \in SelPacks, unp \in SelUnps, method \in SelMethods :
       \E skip \in {BetterAlready(bestsize, pack, unp, method)} :
         /\ hist' = <<[b |-> bestsize, c |-> Candidate(pack, unp, method),
                       admitted |-> ~skip,
                       had8 |-> hist # <<>> /\ (hist[1].had8 \/ (hist[1].admitted
                                                                  /\ hist[1].c.unp >= 8))]>>
         /\ bestsize' = IF skip THEN bestsize ELSE Candidate(pack, unp, method)
    /\ offers' = offers + 1
    /\ UNCHANGED <<pc, runvars, fpos, type, best, best_len, gecos, gecos_len, live, leaks,
                   out, errlog, r5vars, globals, funvars>>

\* --------------------------------------------------- DecodeFileName alone
\* The commands of an encoded name, each with its two flag bits and its
\* bytes: a character with high byte 0, one with the common high byte, one
\* given in full, a run of 129 characters copied from the OEM name, one
\* of 129 with a correction, and a run of 2.
EncCmds == <<[bits |-> 0, bytes |-> <<66>>],
             [bits |-> 1, bytes |-> <<67>>],
             [bits |-> 2, bytes |-> <<68, 1>>],
             [bits |-> 3, bytes |-> <<127>>],
             [bits |-> 3, bytes |-> <<255, 3>>],
             [bits |-> 3, bytes |-> <<0>>]>>

\* The flags byte of up to four commands, the first in the highest bits.
RECURSIVE FlagsByte(_, _)
FlagsByte(cmds, i) ==
    IF i > Len(cmds) \/ i > 4 THEN 0
    ELSE EncCmds[cmds[i]].bits * Pow2(8 - 2 * i) + FlagsByte(cmds, i + 1)

\* The encoded stream of a sequence of commands: a flags byte before
\* every four.
RECURSIVE EncStream(_)
EncStream(cmds) ==
    IF cmds = <<>> THEN <<>>
    ELSE <<FlagsByte(cmds, 1)>>
           \o Concat([i \in 1..Min(4, Len(cmds)) |-> EncCmds[cmds[i]].bytes])
           \o EncStream(SubSeq(cmds, 5, Len(cmds)))

\* The file_name buffers given to DecodeFileName: an OEM name, its NUL,
\* the high byte 1 and the stream of up to MaxDecCmds commands.
EncNames ==
    {oem \o <<0, 1>> \o EncStream(cmds) :
       oem \in {<<>>, <<97>>, <<97, 98>>},
       cmds \in SeqsUpTo(1..Len(EncCmds), MaxDecCmds)}

\* A call of DecodeFileName as at lines 490-492: what it stores in NameW
\* from index 0 on, and where it stores the terminating NUL.
DecodeName ==
    /\ arg.kind = "name"
    /\ res = <<>>
    /\ \E w \in {DecodeWrites(arg.bytes, Len(CStr(arg.bytes)))} :
         res' = <<[w |-> w, nul |-> NulIndex(w, PATH_BUF_SIZE)]>>
    /\ UNCHANGED <<pc, runvars, r3vars, live, leaks, out, errlog, r5vars, globals, selvars,
                   arg>>

\* Names that fill file_name or nearly so: an OEM name of 1019 to 1024
\* bytes and behind it, as far as file_name_size allows, a NUL, the high
\* byte, a flags byte with one command and the bytes of the command.
LongOems == (FILE_NAME_BUF - 5)..FILE_NAME_BUF
LongEncs == {<<>>, <<0, 1>>, <<0, 1, 0, 66>>, <<0, 1, 64, 67>>, <<0, 1, 128, 68, 1>>,
             <<0, 1, 192, 255, 3>>}
LongNames ==
    {SubSeq([i \in 1..n |-> 97] \o e, 1, Min(n + Len(e), FILE_NAME_BUF)) :
       n \in LongOems, e \in LongEncs}

\* A call of DecodeFileName as at lines 477-492 for a name of LongNames:
\* strlen of the OEM name and whether the call reads outside the encoded
\* region it is given.  What it stores after such a read is not defined
\* and not recorded.
DecodeLongName ==
    /\ arg.kind = "longname"
    /\ res = <<>>
    /\ \E buf \in {FileNameBuf(arg.bytes)} :
       \E len \in {StrLen(buf)} :
         res' = <<[len |-> len, encSize |-> FILE_NAME_BUF - len - 1,
                   over |-> DecodeOver(buf, len + 1, FILE_NAME_BUF - len - 1)]>>
    /\ UNCHANGED <<pc, runvars, r3vars, live, leaks, out, errlog, r5vars, globals, selvars,
                   arg>>

\* --------------------------------------------------------- SFX scan alone
\* Executables given to the scan: "MZ", padding of one byte value, the
\* magic at offset off, and after it nothing, a tail, or padding and the
\* magic once more.  The offsets are the first ones the scan can see, the
\* ones around the end of the first window, where the magic straddles two
\* windows, and two around the end of the second window.
SfxPad(n, b) == [i \in 1..n |-> b]
SfxMagics == {RAR3_MAGIC, RAR5_MAGIC}
SfxOffsets(m) ==
    (Len(m)..(Len(m) + 2))
      \cup ((CHUNK_SIZE - 1)..(CHUNK_SIZE + Len(m) + 1))
      \cup {2 * CHUNK_SIZE - 3, 2 * CHUNK_SIZE + 2}
SfxTails == {0, 1, 30}
SfxFills == {144, 82}
SfxArgs ==
    {[kind |-> "sfx", magic |-> m, off |-> o, tail |-> n, fill |-> b, again |-> a] :
       m \in SfxMagics, o \in UNION {SfxOffsets(x) : x \in SfxMagics}, n \in SfxTails,
       b \in SfxFills, a \in BOOLEAN}
SfxFile(a) ==
    MZ_MAGIC \o SfxPad(a.off - 2, a.fill) \o a.magic \o SfxPad(a.tail, a.fill)
      \o (IF a.again THEN a.magic \o SfxPad(a.tail, a.fill) ELSE <<>>)

\* The scan of lines 240-254 (918-932 for RAR5), entered with the stream
\* right after the marker bytes read at line 227 (910).
ScanSfx ==
    /\ arg.kind = "sfx"
    /\ res = <<>>
    /\ Len(arg.magic) <= arg.off
    /\ res' = <<[pos |-> SfxScan(SfxFile(arg), Len(arg.magic), arg.magic)]>>
    /\ UNCHANGED <<pc, runvars, r3vars, live, leaks, out, errlog, r5vars, globals, selvars,
                   arg>>

\* ------------------------------------------------------- read_vuint alone
\* Streams given to read_vuint: up to MaxVIntBytes bytes, a run of bytes
\* with the continuation bit and then nothing, a last byte without it, or
\* such a byte and one more.
VIntConts == {170, 255}
VIntEnds == {<<>>, <<0>>, <<85>>, <<127>>, <<1, 200>>}
VIntStreams ==
    {s \in {c \o e : c \in SeqsUpTo(VIntConts, MaxVIntBytes), e \in VIntEnds} :
       Len(s) <= MaxVIntBytes}

\* The counter *bytes_read before the call.
VIntCounts == {0, 7}

NoArg == [kind |-> "none"]

\* A call of read_vuint on a stream at its start.
ReadVuint ==
    /\ arg.kind = "vuint"
    /\ res = <<>>
    /\ \E r \in {read_vuint(arg.bytes, 0)} :
         res' = <<[len |-> r.len, n |-> r.n, used |-> r.used,
                   bytes_read |-> arg.bytes_read + r.counted]>>
    /\ UNCHANGED <<pc, runvars, r3vars, live, leaks, out, errlog, r5vars, globals, selvars,
                   arg>>

\* ------------------------------------------------------------ specification
InitProgram ==
    /\ pc = "idle"
    /\ narch = 0
    /\ verbose \in BOOLEAN
    /\ sizeof_size_t \in SizeTWidths
    /\ arch = NoArch
    /\ file = <<>>
    /\ fpos = 0
    /\ type = 1
    /\ bestsize = NoBestSize
    /\ best = <<>>
    /\ best_len = 0
    /\ gecos = <<>>
    /\ gecos_len = 0
    /\ live = {}
    /\ leaks = 0
    /\ out = <<>>
    /\ errlog = <<>>
    /\ fpos5 = 0
    /\ found = 0
    /\ ret5 = "none"
    /\ Encrypted = 0
    /\ UsePswCheck = FALSE
    /\ rar5_interations = 0
    /\ rar5_salt = Zero(SIZE_SALT50)
    /\ PswCheck = Zero(SIZE_PSWCHECK)
    /\ offers = 0
    /\ hist = <<>>

Init ==
    /\ InitProgram
    /\ arg = NoArg
    /\ res = <<>>

Next ==
    \/ ProcessFileOpen
    \/ Dispatch
    \/ ArchiveHeader
    \/ NextFileHeader
    \/ HpTail
    \/ BailOut
    \/ Err
    \/ P5Open
    \/ P5Block
    \/ P5Close

Spec == Init /\ [][Next]_vars

\* The selector offered up to MaxOffers candidates in every order.
NextSel == Offer

SpecSel == Init /\ [][NextSel]_vars

\* DecodeFileName called on every buffer of EncNames.
InitDec ==
    /\ InitProgram
    /\ arg \in {[kind |-> "name", bytes |-> b] : b \in EncNames}
               \cup {[kind |-> "longname", bytes |-> b] : b \in LongNames}
    /\ res = <<>>

NextDec == DecodeName \/ DecodeLongName

SpecDec == InitDec /\ [][NextDec]_vars

\* read_vuint called on every stream of VIntStreams.
InitVInt ==
    /\ InitProgram
    /\ arg \in {[kind |-> "vuint", bytes |-> s, bytes_read |-> c] :
                  s \in VIntStreams, c \in VIntCounts}
    /\ res = <<>>

NextVInt == ReadVuint

SpecVInt == InitVInt /\ [][NextVInt]_vars

\* The SFX scan on every executable of SfxArgs.
InitSfx ==
    /\ InitProgram
    /\ arg \in SfxArgs
    /\ res = <<>>

NextSfx == ScanSfx

SpecSfx == InitSfx /\ [][NextSfx]_vars

\* ------------------------------------------------------------- properties
\* What an archive description says about the archive, for stating what
\* is expected of the program.
R3IsFile(k) == Rar3Menu[k].typ = 116
R3Eligible(k) ==
    /\ R3IsFile(k)
    /\ HasFlag(Rar3Menu[k].flags, F_ENC)
    /\ ~HasFlag(Rar3Menu[k].flags, F_SOLID)
    /\ (Rar3Menu[k].flags \div 32) % 8 # 7
Items == {arch.items[i] : i \in DOMAIN arch.items}

\* The build can hold the sizes of item k: a header with the high size
\* words (flag 0x0100) needs a size_t of 64 bits.
R3Supported(k) == ~HasFlag(Rar3Menu[k].flags, F_LARGE) \/ sizeof_size_t >= 8

\* The hash records among the lines on stdout.
IsRecord(l) == l.kind \in {"RAR3_0", "RAR3_1", "rar5"}
Records == SelectSeq(out, IsRecord)

\* A complete RAR3 archive without header encryption, made of file headers
\* only, each with the required flag 0x8000 and with sizes the build can
\* hold, at least one of them an encrypted file that is neither solid nor
\* a directory.
C1Pre ==
    /\ arch.fmt = "rar3" /\ ~arch.hp /\ arch.cut = 0
    /\ \A k \in Items : R3IsFile(k) /\ HasFlag(Rar3Menu[k].flags, F_LONG) /\ R3Supported(k)
    /\ \E k \in Items : R3Eligible(k)

\* C1: for such an archive no record is on stdout while the header loop
\* runs, and when processing ends, at the end of the stream, stdout holds
\* exactly one record, a complete mode-1 record.
C1_OneRecordAfterLoop ==
    C1Pre =>
      /\ pc \in {"dispatch", "archive_hdr", "next_file_header", "BailOut"} => Records = <<>>
      /\ pc = "err" => /\ Len(Records) = 1
                       /\ Records[1].kind = "RAR3_1" /\ Records[1].done
                       /\ fpos = Len(file)

\* Two eligible entries were read, the second replaced the first, and the
\* record of the second was printed.
C1_Witness ==
    /\ C1Pre /\ pc = "err"
    /\ Len(arch.items) = 2 /\ R3Eligible(arch.items[1]) /\ R3Eligible(arch.items[2])
    /\ Len(out) = 1 /\ out[1].pack = Rar3Menu[arch.items[2]].pack
    /\ out[1].pack # Rar3Menu[arch.items[1]].pack

NoReadFailure == \A i \in DOMAIN errlog : errlog[i] # "read failed"

\* C2: for a complete RAR3 archive with encrypted headers, when no read
\* fails, stdout ends up with exactly one mode-0 record, built from the
\* last 24 bytes of the file, however many bytes follow the archive header.
C2_HpRecordFromTail ==
    (pc = "err" /\ arch.fmt = "rar3" /\ arch.hp /\ arch.cut = 0 /\ NoReadFailure)
      => out = <<OutLine("RAR3_0", TRUE, Hex(Bytes(file, Len(file) - 24, 8)), <<>>,
                         Hex(Bytes(file, Len(file) - 16, 16)), 0, <<BaseName>>)>>

\* The records of an extra area, each without its size field, by the sizes
\* the records declare.
RECURSIVE ExtraRecords(_)
ExtraRecords(extra) ==
    IF extra = <<>> THEN <<>>
    ELSE <<SubSeq(extra, 2, 1 + extra[1])>> \o ExtraRecords(SubSeq(extra, 2 + extra[1], Len(extra)))

\* The record expected of one crypt record of a file or service header.
CryptRecordLine(rec) ==
    Rar5Line(SubSeq(rec, 5, 4 + SIZE_SALT50), rec[4],
             SubSeq(rec, 5 + SIZE_SALT50, 4 + SIZE_SALT50 + SIZE_INITV),
             SubSeq(rec, 5 + SIZE_SALT50 + SIZE_INITV,
                    4 + SIZE_SALT50 + SIZE_INITV + SIZE_PSWCHECK))

\* The records expected of a block: one for a file or service header that
\* carries a crypt record with the password-check flag.
ExpectedOfBlock(b) ==
    IF b.typ \in {HEAD_FILE, HEAD_SERVICE}
    THEN Concat([i \in DOMAIN ExtraRecords(b.extra) |->
                   IF ExtraRecords(b.extra)[i][1] = FHEXTRA_CRYPT
                      /\ HasFlag(ExtraRecords(b.extra)[i][3], FHEXTRA_CRYPT_PSWCHECK)
                   THEN <<CryptRecordLine(ExtraRecords(b.extra)[i])>> ELSE <<>>])
    ELSE <<>>

\* A complete RAR5 archive of file and service blocks, without a crypt
\* block, with an end-of-archive block last if at all.
C3Pre ==
    /\ arch.fmt = "rar5" /\ arch.cut = 0
    /\ \A i \in DOMAIN arch.items :
         \/ Rar5Menu[arch.items[i]].typ \in {HEAD_FILE, HEAD_SERVICE}
         \/ Rar5Menu[arch.items[i]].typ = HEAD_ENDARC /\ i = Len(arch.items)

\* C3: when the block loop of such an archive has ended, stdout holds the
\* records of its entries with a password-checked crypt record, one each,
\* in archive order, wherever the crypt record sits in the extra area.
C3_RecordPerEntry ==
    (pc = "p5_close" /\ C3Pre)
      => out = Concat([i \in DOMAIN arch.items |-> ExpectedOfBlock(Rar5Menu[arch.items[i]])])

\* Where the blocks after the main header start in the file.
C4CryptPos == (IF arch.pre = "mz" THEN Len(SfxStub) ELSE 0) + RAR5_MAGIC_SIZE + Len(R5MainBytes)
C4NextPos == C4CryptPos + Len(R5BlockBytes(Rar5Menu[arch.items[1]]))

\* A complete RAR5 archive whose main header is followed by a crypt block
\* with the password check, and that by a block of at least 16 bytes.
C4Pre ==
    /\ arch.fmt = "rar5" /\ arch.cut = 0 /\ Len(arch.items) >= 2
    /\ Rar5Menu[arch.items[1]].typ = HEAD_CRYPT
    /\ Rar5Menu[arch.items[1]].fields[2] = CHFL_CRYPT_PSWCHECK
    /\ Avail(file, C4NextPos) >= SIZE_INITV

\* C4: when the block loop of such an archive has ended, stdout holds one
\* record, with the salt, the count and the 12-byte password check of the
\* crypt block and the first 16 bytes of the next block as IV.
C4_RecordFromCryptBlock ==
    (pc = "p5_close" /\ C4Pre)
      => out = <<Rar5Line(SubSeq(Rar5Menu[arch.items[1]].fields, 4, 3 + SIZE_SALT50),
                          Rar5Menu[arch.items[1]].fields[3],
                          Bytes(file, C4NextPos, SIZE_INITV),
                          SubSeq(Rar5Menu[arch.items[1]].fields, 4 + SIZE_SALT50,
                                 3 + SIZE_SALT50 + SIZE_PSWCHECK))>>

\* The decision the selector took last, if any.
Decided == hist # <<>> /\ hist[1].b.pack < SIZE_MAX

\* C5 as amended: with equal packed sizes the candidate replaces the
\* incumbent exactly when the incumbent's unpacked size is below 8 and the
\* candidate's is not smaller, or the candidate's is at least 8 and smaller
\* than the incumbent's.
C5_TieRule ==
    (Decided /\ hist[1].b.pack = hist[1].c.pack)
      => (hist[1].admitted <=>
            \/ hist[1].c.unp >= hist[1].b.unp /\ hist[1].b.unp < 8
            \/ hist[1].c.unp < hist[1].b.unp /\ hist[1].c.unp >= 8)

\* A tie between two candidates of at least 8 unpacked bytes, the later and
\* smaller of which replaced the incumbent.
C5_Witness ==
    /\ Decided /\ hist[1].b.pack = hist[1].c.pack /\ hist[1].admitted
    /\ hist[1].b.unp >= 8 /\ hist[1].c.unp >= 8

\* C5 as stated: with equal packed sizes the candidate replaces the
\* incumbent only if its unpacked size is at least 8 and the incumbent's is
\* below 8; two both at least 8, or both below 8, keep the incumbent.
C5_AsStated ==
    (Decided /\ hist[1].b.pack = hist[1].c.pack /\ hist[1].admitted)
      => (hist[1].c.unp >= 8 /\ hist[1].b.unp < 8)

\* unp is below the safe threshold of a candidate of this method.
Unsafe(unp, method) == unp < (IF method > 48 THEN 4 ELSE 1)

\* C6 as amended: the first candidate is admitted; a candidate with a
\* smaller packed size replaces the incumbent except exactly when its
\* unpacked size is below its own threshold and smaller than the
\* incumbent's; one with a larger packed size replaces the incumbent exactly
\* when the incumbent's unpacked size is below the incumbent's threshold
\* and that exception does not apply.
C6_PackRule ==
    /\ (hist # <<>> /\ hist[1].b = NoBestSize) => hist[1].admitted
    /\ (Decided /\ hist[1].c.pack < hist[1].b.pack)
         => (hist[1].admitted <=>
               ~(Unsafe(hist[1].c.unp, hist[1].c.method) /\ hist[1].c.unp < hist[1].b.unp))
    /\ (Decided /\ hist[1].c.pack > hist[1].b.pack)
         => (hist[1].admitted <=>
               /\ Unsafe(hist[1].b.unp, hist[1].b.method)
               /\ ~(Unsafe(hist[1].c.unp, hist[1].c.method) /\ hist[1].c.unp < hist[1].b.unp))

\* A candidate with a larger packed size replaced an incumbent whose
\* unpacked size is below its threshold.
C6_Witness ==
    /\ Decided /\ hist[1].c.pack > hist[1].b.pack /\ hist[1].admitted
    /\ Unsafe(hist[1].b.unp, hist[1].b.method)

\* C6 as stated: the first candidate is admitted; a candidate with a
\* smaller packed size replaces the incumbent except exactly when the
\* incumbent's unpacked size reaches the incumbent's threshold and the
\* candidate's is below that threshold; one with a larger packed size
\* never replaces the incumbent.
C6_AsStated ==
    /\ (hist # <<>> /\ hist[1].b = NoBestSize) => hist[1].admitted
    /\ (Decided /\ hist[1].c.pack < hist[1].b.pack)
         => (hist[1].admitted <=>
               ~(~Unsafe(hist[1].b.unp, hist[1].b.method)
                 /\ Unsafe(hist[1].c.unp, hist[1].b.method)))
    /\ (Decided /\ hist[1].c.pack > hist[1].b.pack) => ~hist[1].admitted

\* C7 as amended: a candidate that replaces an incumbent of at least 8
\* unpacked bytes has at least 8 unpacked bytes itself, or a strictly
\* smaller packed size and an unpacked size that reaches its own threshold.
C7_StepFromSafe ==
    (Decided /\ hist[1].admitted /\ hist[1].b.unp >= 8)
      => \/ hist[1].c.unp >= 8
         \/ hist[1].c.pack < hist[1].b.pack /\ ~Unsafe(hist[1].c.unp, hist[1].c.method)

\* A candidate below 8 unpacked bytes replaced an incumbent of at least 8.
C7_Witness ==
    /\ Decided /\ hist[1].admitted /\ hist[1].b.unp >= 8 /\ hist[1].c.unp < 8

\* C7 as stated: once a candidate of at least 8 unpacked bytes has been
\* admitted, every candidate admitted later has at least 8 unpacked bytes,
\* or a packed size strictly smaller than the incumbent it replaces and an
\* unpacked size that reaches its own threshold.
C7_AsStated ==
    (Decided /\ hist[1].admitted /\ hist[1].had8)
      => \/ hist[1].c.unp >= 8
         \/ hist[1].c.pack < hist[1].b.pack /\ ~Unsafe(hist[1].c.unp, hist[1].c.method)

\* C8: when processing of an archive as in C1 ends and one of its eligible
\* entries is stored (method 0x30), the record printed is that of a stored
\* entry.
C8_StoredPreferred ==
    (pc = "err" /\ C1Pre /\ \E k \in Items : R3Eligible(k) /\ Rar3Menu[k].method = 48)
      => (Len(Records) = 1 /\ Records[1].method = 48)

\* C9: whenever process_file has returned, everything it and process_file5
\* acquired for the archive has been released.
C9_AllReleased == pc = "idle" => leaks = 0

\* C10: stdout never holds a record that is not complete through its line
\* terminator; the start of a mode-0 record is not there before the 24
\* tail bytes are read.
C10_NoPartialRecord == \A i \in DOMAIN out : out[i].done

\* C11: every line on stdout is a hash record; diagnostics, rejections of a
\* crypt block and dumps of encoded file names are not on stdout, with or
\* without -v.
C11_StdoutOnlyRecords == \A i \in DOMAIN out : IsRecord(out[i])

\* An existing file of fewer than 7 bytes is being processed.
C12Short(a, f) == a.fmt \notin {"none", "missing"} /\ Len(f) < RAR3_MAGIC_SIZE

\* C12: for a file shorter than 7 bytes, opening it leads straight to the
\* err label with "Not a RAR file" reported once and nothing on stdout, and
\* the next step returns with the handle closed and nothing else held;
\* neither the RAR3 nor the RAR5 parsing is entered.
C12_ShortInput ==
    [][/\ (pc' = "err" /\ C12Short(arch', file'))
            => /\ pc = "idle"
               /\ errlog' = <<"! Not a RAR file">>
               /\ out' = <<>>
               /\ live' = {"gecos", "fp"}
       /\ (pc = "err" /\ C12Short(arch, file))
            => (pc' = "idle" /\ live' = {} /\ leaks' = leaks)]_vars

\* A file of 6 bytes was rejected and is about to be closed.
C12_Witness ==
    /\ pc = "err" /\ C12Short(arch, file) /\ Len(file) = 6
    /\ errlog = <<"! Not a RAR file">> /\ out = <<>>

\* Where the block loop of process_file5 starts in the current file.
P5Start ==
    IF SubSeq(file, 1, 2) = MZ_MAGIC THEN SfxScan(file, RAR5_MAGIC_SIZE, RAR5_MAGIC)
    ELSE RAR5_MAGIC_SIZE

\* C13: when the block loop of a RAR5 archive has ended, stdout holds the
\* lines the same file gives when it is the first archive of a run, that
\* is with the globals as they are at program start, whatever archives
\* were processed before it.
C13_SameAsFirst ==
    pc = "p5_close"
      => \E g \in GarbageBytes : out = P5Lines(file, P5Start, FreshGlobals, g, Len(file))

\* The first byte without the continuation bit among the first ten of the
\* stream, as an index from 1, or 0 when there is none.
VIntEnd ==
    IF \E i \in 1..Min(Len(arg.bytes), 10) : arg.bytes[i] < 128
    THEN CHOOSE i \in 1..Min(Len(arg.bytes), 10) :
           /\ arg.bytes[i] < 128
           /\ \A k \in 1..(i - 1) : arg.bytes[k] >= 128
    ELSE 0

\* Bit j of a uint64_t.
Bit64(n, j) == (n[(j \div 16) + 1] \div Pow2(j % 16)) % 2

\* C14: read_vuint takes the bytes up to and including the first one
\* without the continuation bit, returns their number, adds it to the
\* counter, and yields the sum of (byte_i & 0x7f) * 2^(7i) modulo 2^64, which
\* has bit j of group j div 7 as its bit j since the groups do not overlap;
\* with ten continuation bytes or a stream that ends first it returns 0
\* and leaves the counter as it was.
C14_ReadVuint ==
    (res # <<>> /\ arg.kind = "vuint")
      => \E e \in {VIntEnd} :
           IF e # 0
           THEN /\ res[1].len = e /\ res[1].len \in 1..10
                /\ res[1].used = e
                /\ res[1].bytes_read = arg.bytes_read + e
                /\ \A j \in 0..63 :
                     Bit64(res[1].n, j)
                       = (IF j \div 7 < e
                          THEN ((arg.bytes[(j \div 7) + 1] % 128) \div Pow2(j % 7)) % 2
                          ELSE 0)
           ELSE /\ res[1].len = 0
                /\ res[1].bytes_read = arg.bytes_read

\* A value of ten bytes was read, with bit 63 set from the tenth byte.
C14_Witness ==
    /\ res # <<>> /\ arg.kind = "vuint"
    /\ res[1].len = 10 /\ Bit64(res[1].n, 63) = 1 /\ arg.bytes_read = 7

\* C15: DecodeFileName stores characters at the indices 0 .. Len(w) - 1 of
\* NameW only, all of them below the capacity of PATH_BUF_SIZE units, also
\* when a run-length command is longer than the room left, and it stores
\* the NUL at an index of at most capacity - 1 that is not beyond the
\* characters stored.
C15_DecodeBounded ==
    (res # <<>> /\ arg.kind = "name")
      => /\ Len(res[1].w) <= PATH_BUF_SIZE
         /\ res[1].nul <= PATH_BUF_SIZE - 1
         /\ res[1].nul <= Len(res[1].w)
         /\ res[1].nul >= Len(res[1].w) - 1

\* Two runs of 129 characters were decoded: the second was cut at the
\* capacity and the NUL was stored in the last unit.
C15_Witness ==
    /\ res # <<>> /\ arg.kind = "name"
    /\ Len(res[1].w) = PATH_BUF_SIZE /\ res[1].nul = PATH_BUF_SIZE - 1
    /\ res[1].w[PATH_BUF_SIZE] # 0

\* Where the headers after the archive header start in the current RAR3
\* file, and where the header of item k starts.
R3Start == (IF arch.pre = "mz" THEN Len(SfxStub) ELSE 0) + RAR3_MAGIC_SIZE + 13 + arch.acmt
R3ItemPos(k) ==
    R3Start + Len(Concat([i \in 1..(k - 1) |-> R3EntryBytes(Rar3Menu[arch.items[i]])]))

\* Item k is the first header of the archive with flag 0x8000 clear, and
\* the headers before it are file headers with sizes the build can hold.
C16First(k) ==
    /\ k \in DOMAIN arch.items
    /\ ~HasFlag(Rar3Menu[arch.items[k]].flags, F_LONG)
    /\ \A i \in 1..(k - 1) : /\ HasFlag(Rar3Menu[arch.items[i]].flags, F_LONG)
                             /\ R3IsFile(arch.items[i])
                             /\ R3Supported(arch.items[i])

C16Pre == arch.fmt = "rar3" /\ ~arch.hp /\ arch.cut = 0 /\ \E k \in DOMAIN arch.items : C16First(k)

\* C16 as amended: a file header with flag 0x8000 clear ends the header
\* loop with a report on stderr and nothing more is read; the candidate
\* admitted from the headers before it, if there is one, is printed as the
\* record, and without one no record is printed.
C16_NoFlagEndsLoop ==
    (pc = "err" /\ C16Pre)
      => \A k \in DOMAIN arch.items :
           C16First(k)
             => /\ fpos = R3ItemPos(k) + 32
                /\ \E i \in DOMAIN errlog : errlog[i] = "flag 0x8000 unset"
                /\ IF \E i \in 1..(k - 1) : R3Eligible(arch.items[i])
                   THEN /\ Len(Records) = 1
                        /\ \E i \in 1..(k - 1) :
                             /\ R3Eligible(arch.items[i])
                             /\ Records[1].data = Hex(Rar3Menu[arch.items[i]].data)
                   ELSE Records = <<>>

\* An eligible entry was followed by a header with flag 0x8000 clear, and
\* the record of the entry was printed.
C16_Witness ==
    /\ pc = "err" /\ C16Pre /\ C16First(2) /\ R3Eligible(arch.items[1])
    /\ Len(Records) = 1 /\ Records[1].data = Hex(Rar3Menu[arch.items[1]].data)

\* C16 as stated: when a file header has flag 0x8000 clear, no record is
\* printed for the archive, even if a candidate had been admitted before.
C16_AsStated == (pc = "err" /\ C16Pre) => Records = <<>>

\* C17: the data of a header with tag 0x7a is never buffered as the best
\* candidate and never printed as a record, whatever the flag bits of the
\* header.
C17_CommentSkipped ==
    (arch.fmt = "rar3" /\ ~arch.hp)
      => \A k \in Items :
           Rar3Menu[k].typ = 122
             => /\ best = <<>> \/ best[1].data # Hex(Rar3Menu[k].data)
                /\ \A i \in DOMAIN out : out[i].data # Hex(Rar3Menu[k].data)

R5IsCrypt(k) == Rar5Menu[k].typ = HEAD_CRYPT
R5HasPswCheck(k) == R5IsCrypt(k) /\ HasFlag(Rar5Menu[k].fields[2], CHFL_CRYPT_PSWCHECK)

\* C18: in the first archive of a run, a complete RAR5 file, Encrypted is
\* set only when one of the blocks is a crypt header with the pswcheck
\* flag, and when the first block after the main header is a crypt header
\* without that flag no RAR5 record is printed.
C18_OnlyAfterPswCheck ==
    (narch = 1 /\ arch.fmt = "rar5" /\ arch.cut = 0 /\ pc \in {"p5_loop", "p5_close"})
      => /\ Encrypted = 1 => \E i \in DOMAIN arch.items : R5HasPswCheck(arch.items[i])
         /\ (arch.items # <<>> /\ R5IsCrypt(arch.items[1]) /\ ~R5HasPswCheck(arch.items[1]))
              => Records = <<>>

\* The starts of the records of an extra area, as offsets in the area, by
\* the sizes the records declare, up to the first crypt record.
RECURSIVE TlvStarts(_, _)
TlvStarts(extra, at) ==
    IF at >= Len(extra) THEN <<>>
    ELSE IF extra[at + 2] = FHEXTRA_CRYPT THEN <<at>>
    ELSE <<at>> \o TlvStarts(extra, at + 1 + extra[at + 1])

\* The first block after the main header of the current RAR5 file, and
\* where its extra area starts in the file.
R5First == Rar5Menu[arch.items[1]]
R5FirstExtra ==
    P5Start + Len(R5MainBytes) + Len(R5BlockBytes(R5First))
      - Len(R5First.data) - Len(R5First.extra)

C19Pre ==
    /\ pc = "p5_close" /\ arch.fmt = "rar5" /\ arch.cut = 0 /\ arch.items # <<>>
    /\ R5First.typ \in {HEAD_FILE, HEAD_SERVICE} /\ R5First.extra # <<>>

\* C19: when the first block of a complete RAR5 file is a file or service
\* header with an extra area, ProcessExtra50 read the field sizes at the
\* starts of the records, each start being the previous one plus the width
\* of the size field plus the field size, and read none at or beyond the
\* end of the extra area.
C19_TlvOffsets ==
    C19Pre
      => \E reads \in {Extra50Reads(file, R5FirstExtra, Len(R5First.extra), R5First.typ)} :
           /\ reads = [i \in DOMAIN TlvStarts(R5First.extra, 0) |->
                         R5FirstExtra + TlvStarts(R5First.extra, 0)[i]]
           /\ \A i \in DOMAIN reads : reads[i] < R5FirstExtra + Len(R5First.extra)

\* A crypt header that read_rar5_header accepts and that sets Encrypted
\* with the password check read from it.
R5GoodCrypt(k) ==
    /\ R5HasPswCheck(k)
    /\ Rar5Menu[k].fields[1] <= CRYPT_VERSION
    /\ Rar5Menu[k].fields[3] <= CRYPT5_KDF_LG2_COUNT_MAX

\* The bytes of the current RAR5 file after its first block.
R5AfterFirst == Len(file) - (P5Start + Len(R5MainBytes) + Len(R5BlockBytes(R5First)))

\* C20: in the first archive of a run, when the first block of a RAR5 file
\* is a crypt header with a password check and fewer than 16 bytes follow
\* it, the block loop ends with the IV read reported as an error and no
\* record on stdout.
C20_ShortIvNoRecord ==
    (narch = 1 /\ pc = "p5_close" /\ arch.fmt = "rar5" /\ arch.pre = "none"
       /\ arch.items # <<>> /\ R5GoodCrypt(arch.items[1])
       /\ R5AfterFirst \in 0..(SIZE_INITV - 1))
      => /\ Records = <<>>
         /\ \E i \in DOMAIN errlog : errlog[i] = "could not read IV from header"

\* The ciphertext of the last entry of the current RAR3 file is cut short.
C21Cut ==
    /\ arch.fmt = "rar3" /\ ~arch.hp /\ arch.items # <<>>
    /\ arch.cut \in 1..Rar3Menu[arch.items[Len(arch.items)]].pack
    /\ R3Eligible(arch.items[Len(arch.items)])

\* C21: when processing of a RAR3 file ends, every mode-1 record on stdout
\* carries packed-size bytes that stand in the file, and a file whose last
\* entry is an eligible one with its ciphertext cut short gives no record.
C21_CiphertextComplete ==
    pc = "err"
      => /\ \A i \in DOMAIN out :
              out[i].kind = "RAR3_1"
                => \E at \in 0..(Len(file) - out[i].pack) :
                     out[i].data = Hex(Bytes(file, at, out[i].pack))
         /\ C21Cut => Records = <<>>

\* C22: for an executable with the magic at offset off, off at least the
\* size of the magic, the scan ends with the stream right after the first
\* occurrence of the magic, at off + 7 for RAR3 and off + 8 for RAR5,
\* wherever the magic lies with respect to the windows.
C22_SfxScanFinds ==
    (arg.kind = "sfx" /\ res # <<>>)
      => /\ Bytes(SfxFile(arg), arg.off, Len(arg.magic)) = arg.magic
         /\ res[1].pos = arg.off + Len(arg.magic)

\* The RAR3 magic started 4 bytes before the end of the first window and
\* was found by the second.
C22_Witness ==
    /\ arg.kind = "sfx" /\ res # <<>>
    /\ arg.magic = RAR3_MAGIC /\ arg.off = RAR3_MAGIC_SIZE + CHUNK_SIZE - 4
    /\ res[1].pos = arg.off + RAR3_MAGIC_SIZE

\* C23: the block loop of process_file5 moves forward: whenever a block is
\* about to be read and read_rar5_header names a next block, that block
\* lies after the current one.
C23_BlocksAdvance ==
    (pc = "p5_loop")
      => \A g \in GarbageBytes :
           \E r \in {read_rar5_header(file, fpos5,
                        Globals(Encrypted, UsePswCheck, rar5_interations, rar5_salt,
                                PswCheck), g)} :
             r.next # 0 => r.next > fpos5

\* C24: a call of DecodeFileName reads no byte of EncName outside the
\* region 0 .. EncSize - 1 it is given.
C24_ReadsInRegion == (arg.kind = "longname" /\ res # <<>>) => ~res[1].over

\* A complete RAR3 archive without header encryption made of file headers
\* with flag 0x8000 and plain OEM names, and the name of its item i.
C25Pre ==
    /\ arch.fmt = "rar3" /\ ~arch.hp /\ arch.cut = 0 /\ arch.items # <<>>
    /\ \A k \in Items : /\ R3IsFile(k) /\ HasFlag(Rar3Menu[k].flags, F_LONG)
                        /\ ~HasFlag(Rar3Menu[k].flags, F_UNICODE)
C25Name(i) == Rar3Menu[arch.items[i]].name

\* The names of items 1 .. i, each with a space after it.
RECURSIVE C25AllNames(_)
C25AllNames(i) == IF i = 0 THEN <<>> ELSE C25AllNames(i - 1) \o C25Name(i) \o <<32>>

\* The count of characters after items 1 .. i: a name is taken, with its
\* space, while the count so far and the name stay below the size of the
\* buffer, and is left out otherwise.
RECURSIVE C25Count(_)
C25Count(i) ==
    IF i = 0 THEN 0
    ELSE IF C25Count(i - 1) + Len(C25Name(i)) >= LINE_BUFFER_SIZE THEN C25Count(i - 1)
    ELSE C25Count(i - 1) + Len(C25Name(i)) + 1

\* The names of items 1 .. i as far as they get into the line buffer: a
\* name that is taken is cut where two bytes of the buffer remain.
RECURSIVE C25Fitting(_)
C25Fitting(i) ==
    IF i = 0 THEN <<>>
    ELSE IF C25Count(i - 1) + Len(C25Name(i)) >= LINE_BUFFER_SIZE THEN C25Fitting(i - 1)
    ELSE C25Fitting(i - 1)
           \o SubSeq(C25Name(i) \o <<32>>, 1,
                     IF Len(C25Name(i)) + 1 > LINE_BUFFER_SIZE - C25Count(i - 1) - 2
                     THEN LINE_BUFFER_SIZE - C25Count(i - 1) - 2 ELSE Len(C25Name(i)) + 1)

\* C25 as amended: gecos_len never exceeds the size of the line buffer, the
\* string in gecos and its NUL lie inside the buffer, and when the header
\* loop of an archive of file headers has ended, gecos holds the names of
\* the entries, skipped, rejected or admitted, as far as they fit: a name
\* that would bring the count to the size of the buffer is left out, and a
\* name that is taken is cut two bytes before the end of the buffer.
C25_GecosBounded ==
    /\ gecos_len <= LINE_BUFFER_SIZE
    /\ Len(gecos) + 1 <= LINE_BUFFER_SIZE
    /\ Len(gecos) <= gecos_len
    /\ (C25Pre /\ pc = "BailOut") => /\ gecos = C25Fitting(Len(arch.items))
                                     /\ gecos_len = C25Count(Len(arch.items))

\* An entry with a name of 1023 characters was read and then one more: the
\* counter stands at the size of the buffer, the first name is cut and the
\* second is not there.
C25_Witness ==
    /\ C25Pre /\ pc = "BailOut" /\ Len(arch.items) = 2
    /\ Len(C25Name(1)) = LINE_BUFFER_SIZE - 1
    /\ gecos_len = LINE_BUFFER_SIZE
    /\ gecos = SubSeq(C25Name(1), 1, LINE_BUFFER_SIZE - 2)

\* C25 as stated: the bounds, and a name in gecos for every file header
\* read.
C25_AsStated ==
    /\ gecos_len <= LINE_BUFFER_SIZE
    /\ Len(gecos) + 1 <= LINE_BUFFER_SIZE
    /\ (C25Pre /\ pc = "BailOut") => gecos = C25AllNames(Len(arch.items))

\* C26: on a build with a size_t of 32 bits, when processing of a complete
\* RAR3 archive whose first file header has flag 0x0100 ends, the archive
\* was rejected as unsupported and stdout holds no record, with and
\* without -v.
C26_Rejects64Bit ==
    (pc = "err" /\ sizeof_size_t = 4 /\ arch.fmt = "rar3" /\ ~arch.hp /\ arch.cut = 0
       /\ arch.items # <<>> /\ R3IsFile(arch.items[1])
       /\ HasFlag(Rar3Menu[arch.items[1]].flags, F_LONG)
       /\ HasFlag(Rar3Menu[arch.items[1]].flags, F_LARGE))
      => /\ Records = <<>>
         /\ \E i \in DOMAIN errlog : errlog[i] = "64-bit sizes not supported"

\* Item k of the current archive is a file header with flag 0x8000 that is
\* solid, a directory or not encrypted.
R3Skipped(k) ==
    /\ R3IsFile(k)
    /\ HasFlag(Rar3Menu[k].flags, F_LONG)
    /\ ~R3Eligible(k)

\* The header loop stands at the header of item i of a RAR3 archive
\* without header encryption, and the file holds that header whole.
C27At(i) ==
    /\ pc = "next_file_header" /\ type = 1
    /\ arch.fmt = "rar3" /\ ~arch.hp
    /\ i \in DOMAIN arch.items
    /\ fpos = R3ItemPos(i)
    /\ Avail(file, fpos) >= R3HeadSize(Rar3Menu[arch.items[i]])

\* The pass over a skipped entry: the loop goes on, the selector is as
\* before, and the stream stands packed-size bytes after the header.
C27SkipStep(i) ==
    (C27At(i) /\ R3Skipped(arch.items[i]))
      => /\ pc' = "next_file_header"
         /\ bestsize' = bestsize /\ best' = best /\ best_len' = best_len
         /\ fpos' = fpos + R3HeadSize(Rar3Menu[arch.items[i]]) + Rar3Menu[arch.items[i]].pack

\* The pass over an eligible entry that stands after skipped entries only
\* (and whose sizes the build supports): it is admitted by the selector.
C27OfferStep(i) ==
    (/\ C27At(i) /\ R3Eligible(arch.items[i])
     /\ i > 1
     /\ HasFlag(Rar3Menu[arch.items[i]].flags, F_LONG)
     /\ ~(HasFlag(Rar3Menu[arch.items[i]].flags, F_LARGE) /\ sizeof_size_t < 8)
     /\ \A j \in 1..(i - 1) : R3Skipped(arch.items[j]))
      => /\ pc' = "next_file_header"
         /\ best' # <<>>
         /\ bestsize' = [pack |-> Rar3Menu[arch.items[i]].pack,
                         unp |-> Rar3Menu[arch.items[i]].unp,
                         method |-> Rar3Menu[arch.items[i]].method]

\* C27: a pass of the header loop over a solid, directory or unencrypted
\* file entry whose header was read whole never goes to err and leaves
\* bestsize, best and best_len as they were; the next header is read
\* packed-size bytes after the end of the skipped header; and an eligible
\* entry after skipped entries only is offered to the selector and admitted.
C27_SkipKeepsSelector ==
    [][\A i \in 1..MaxEntries + 1 : C27SkipStep(i) /\ C27OfferStep(i)]_vars

\* A skipped entry after an eligible one has been passed: the loop stands
\* at the end of a two-entry archive and the incumbent is that of entry 1.
C27_Witness ==
    /\ pc = "next_file_header" /\ type = 1
    /\ arch.fmt = "rar3" /\ ~arch.hp /\ arch.cut = 0
    /\ Len(arch.items) = 2
    /\ R3Eligible(arch.items[1]) /\ R3Skipped(arch.items[2])
    /\ fpos = Len(file)
    /\ best # <<>>
    /\ bestsize.pack = Rar3Menu[arch.items[1]].pack

====
